---- MODULE Spec2Model ----
(***************************************************************************)
(* Model of the CRM synchronisation pipeline of crm-automation-platform:   *)
(* the LeadConnector connector (pagination, invoice window filter, cached  *)
(* contact lookup), the in-memory TTL cache, and InvoiceService (owner     *)
(* lookup and row construction).                                           *)
(*                                                                         *)
(* The specifications share the variables:                                 *)
(*   SpecFetch     paginatedGet / fetchAllInvoicesPaged and fetchInvoices  *)
(*   FairSpecPage  the paginator alone, with fair scheduling               *)
(*   SpecCache     the InMemoryCache API driven by arbitrary callers       *)
(*   SpecRows      transformToRows on arbitrary arguments                  *)
(*   Spec          two /sync-invoices requests: InvoiceService over        *)
(*                 LeadConnectorCRM.fetchContact and the shared cache      *)
(***************************************************************************)
EXTENDS Integers, Sequences, FiniteSets, TLC

VARIABLES
    \* ---- LeadConnectorCRM pagination and fetchInvoices
    variant,      \* which paginator of the repository runs
    backend,      \* the list of raw invoices the CRM backend holds
    startMs,      \* startDate.getTime()
    endMs,        \* endDate.getTime()
    pgPc,         \* position in the pagination loop
    offset,       \* let offset
    all,          \* const all: T[]
    pgLog,        \* backend requests and pacing pauses, in order
    pgReturned,   \* the paginator returned a list to its caller
    pgResult,     \* the list it returned
    pgError,      \* the error it raised
    rejected,     \* the page request the HTTP client rejected, if any
    fiDone,       \* fetchInvoices returned
    fiResult,     \* the list fetchInvoices returned
    \* ---- InMemoryCache (the process-wide singleton) and the clock
    cacheMap,     \* private cache: Map<string, CacheEntry>
    now,          \* Date.now()
    ticks,        \* number of clock advances so far
    ret,          \* the last cache call observed by a direct caller, and its result
    lastSet,      \* per key: the latest set not followed by a delete or clear
    \* ---- sync requests: InvoiceService over LeadConnectorCRM.fetchContact
    route,        \* which /sync-invoices handler of the repository serves
    tenant,       \* per request: the client whose CRM the connector talks to
    invoices,     \* per request: the invoices fetched for it
    pc,           \* per request: position in the handler
    contactIds,   \* per request: the Set of unique contact ids, in insertion order
    idx,          \* per request: position of the for..of loop in contactIds
    count,        \* per request: let count
    ownerMap,     \* per request: the Map built by buildOwnerLookup
    threw,        \* per request: buildOwnerLookup let an error escape
    evlog,        \* per request: lookups, backend requests, pauses and outcomes
    rows,         \* per request: the rows transformToRows returned
    \* ---- transformToRows applied to arbitrary arguments
    trInvoices, trOwnerMap, trDone, trRows,
    trAgain,      \* transformToRows was called a second time on the same arguments
    trRows2,      \* the rows the second call returned
    \* ---- paymentService: buildPaymentMap and toPaymentTypeRows
    transactions, \* buildPaymentMap's transactions: any[]
    payStartMs,   \* buildPaymentMap's startMs
    payEndMs,     \* buildPaymentMap's endMs
    payIdx,       \* position of the for..of loop in transactions
    paymentMap,   \* const map = new Map<string, PaymentBucket>()
    contrib,      \* the transactions that reached a bucket, in order
    payInvoices,  \* toPaymentTypeRows' invoices
    payPc,        \* position in the payment-type computation
    payRows,      \* the rows toPaymentTypeRows returned
    \* ---- derivePayment applied to arbitrary transactions
    dpTxn, dpDone, dpOut,
    \* ---- buildOwnerLookup's pacing over many contacts
    plContacts,   \* contactIds.size
    plPc,         \* position in the for..of loop
    plIdx,        \* number of contact ids the loop has finished with
    plCount,      \* let count
    plIssued,     \* contact lookups issued so far
    plSince,      \* contact lookups issued since the last pause (or the start)
    plPauseAt,    \* plIssued when the last pause was taken
    \* ---- LeadConnectorCRM.fetchAppointments
    apUserIds,    \* userIds
    apCalendar,   \* per user: the raw events the backend returns
    apPc,         \* position in fetchAppointments
    apUser,       \* position of the first loop in userIds
    apAll,        \* const all: Appointment[]
    apBf,         \* position of the backfill loop in all
    apLog,        \* calendar requests, pauses and contact lookups, in order
    apReturned,   \* fetchAppointments returned a list
    apResult,     \* the list it returned
    apFailed,     \* the user whose calendar request was rejected, if any
    \* ---- createCRMConnector and hasCRM
    facConfig,    \* config: CRMConfig
    facCalled,    \* createCRMConnector(config) was called
    facOut,       \* what it returned or threw
    hasCalled,    \* hasCRM(config) was called
    hasOut,       \* what it returned
    \* ---- POST /sync-payment-types: the two fetches under Promise.all
    psLen,        \* per fetch: the number of items its backend list holds
    psPc,         \* per fetch: position in paginatedGet
    psOffset,     \* per fetch: let offset
    psInFlight,   \* the fetches whose backend request has not completed
    \* ---- the cells invoiceToRow and toPaymentTypeRows read from one invoice
    clInv,        \* inv: Invoice, as the backend delivered it
    clRowDone,    \* invoiceToRow returned
    clRow,        \* the cells of the row it returned
    clPayDone,    \* toPaymentTypeRows returned
    clPayRow,     \* the invoice cells of the row it returned
    \* ---- authMiddleware
    auReq,        \* req: the Authorization header and the three clientId sources
    auPc,         \* position in authMiddleware
    auStatus,     \* the statuses of the responses sent, in order
    auNext,       \* number of calls of next()
    auAttached,   \* req.clientConfig
    auLoadThrew,  \* clientConfigLoader.load rejected
    \* ---- POST /sync-invoices and POST /sync-appointments: validation
    vlReq,        \* the route, clientConfig.crm and req.body
    vlPc,         \* position in the handler
    vlStatus,     \* the status of the response (0: none yet)
    vlError,      \* the error code of the response
    vlCreated,    \* number of calls of createCRMConnector
    vlFetches,    \* number of fetches started on the connector
    \* ---- monthWindowLocalMs and fetchInvoicesForMonth
    mwZone,       \* the time zone of the process
    mwYear,       \* year
    mwMonth,      \* month1to12
    mwDone,       \* monthWindowLocalMs returned
    mwOut,        \* the window it returned
    mwFetched,    \* fetchInvoicesForMonth called fetchInvoices
    mwFetch       \* the start and end it passed

fetchVars == <<variant, backend, startMs, endMs, pgPc, offset, all, pgLog,
               pgReturned, pgResult, pgError, rejected, fiDone, fiResult>>

cacheVars == <<cacheMap, now, ticks, ret, lastSet>>

syncVars == <<route, tenant, invoices, pc, contactIds, idx, count, ownerMap,
              threw, evlog, rows>>

rowsVars == <<trInvoices, trOwnerMap, trDone, trRows, trAgain, trRows2>>

payVars == <<transactions, payStartMs, payEndMs, payIdx, paymentMap, contrib,
             payInvoices, payPc, payRows>>

deriveVars == <<dpTxn, dpDone, dpOut>>

pauseVars == <<plContacts, plPc, plIdx, plCount, plIssued, plSince, plPauseAt>>

apptVars == <<apUserIds, apCalendar, apPc, apUser, apAll, apBf, apLog, apReturned,
              apResult, apFailed>>

facVars == <<facConfig, facCalled, facOut, hasCalled, hasOut>>

psVars == <<psLen, psPc, psOffset, psInFlight>>

cellVars == <<clInv, clRowDone, clRow, clPayDone, clPayRow>>

authVars == <<auReq, auPc, auStatus, auNext, auAttached, auLoadThrew>>

valVars == <<vlReq, vlPc, vlStatus, vlError, vlCreated, vlFetches>>

monthVars == <<mwZone, mwYear, mwMonth, mwDone, mwOut, mwFetched, mwFetch>>

lateVars == <<cellVars, authVars, valVars, monthVars>>

extVars == <<payVars, deriveVars, pauseVars, apptVars, facVars, psVars, lateVars>>

coreVars == <<fetchVars, cacheVars, syncVars, rowsVars>>

\* the variables each part of the model leaves alone
oldVars    == <<coreVars, payVars, deriveVars, pauseVars, apptVars, facVars, psVars>>
cellRest   == <<oldVars, authVars, valVars, monthVars>>
authRest   == <<oldVars, cellVars, valVars, monthVars>>
monthRest  == <<oldVars, cellVars, authVars, valVars>>
valRest    == <<fetchVars, syncVars, rowsVars, payVars, deriveVars, pauseVars, apptVars,
                facVars, psVars, cellVars, authVars, monthVars>>
payRest    == <<coreVars, deriveVars, pauseVars, apptVars, facVars, psVars, lateVars>>
deriveRest == <<coreVars, payVars, pauseVars, apptVars, facVars, psVars, lateVars>>
pauseRest  == <<coreVars, payVars, deriveVars, apptVars, facVars, psVars, lateVars>>
apptRest   == <<fetchVars, syncVars, rowsVars, payVars, deriveVars, pauseVars,
                facVars, psVars, lateVars>>
facRest    == <<coreVars, payVars, deriveVars, pauseVars, apptVars, psVars, lateVars>>
psRest     == <<coreVars, payVars, deriveVars, pauseVars, apptVars, facVars, lateVars>>

vars == <<fetchVars, cacheVars, syncVars, rowsVars, extVars>>

----------------------------------------------------------------------------
(* Bounds *)
MaxItems == 250      \* largest backend list walked by the paginator
MaxSmall == 3        \* longest backend list with freely chosen issue dates
MaxMs    == 3        \* instants 0..MaxMs are used as issue dates and window ends
MaxTicks == 3        \* clock advances in one behaviour of the cache alone
MaxSyncTicks == 1    \* clock advances in one behaviour of the sync requests
MaxInv   == 2        \* longest invoice list handed to InvoiceService
MaxDay   == 2        \* transactions are dated on days 0..MaxDay of 1970
MaxTxn   == 2        \* longest freely chosen transaction list
MaxCharges == 2      \* longest chargeSnapshot.charges.data
MaxContacts == 27    \* most unique contacts in one buildOwnerLookup call
MaxUsers == 2        \* longest userIds list of fetchAppointments
MaxYears == 3        \* the month windows of the years 2024 - MaxYears .. 2024
MaxAmount == 1       \* invoice amounts are 0..MaxAmount
MaxHalfPages == 4    \* the lists of a payment-type sync hold up to MaxHalfPages half pages

(* Program constants *)
limit == 100

----------------------------------------------------------------------------
(* Numbers as JavaScript produces them here: a finite integer or NaN.      *)
Num(n) == [nan |-> FALSE, ms |-> n]
NaN    == [nan |-> TRUE, ms |-> 0]

\* a >= b and a < b on numbers; every comparison with NaN is false
GeNum(a, b) == ~a.nan /\ ~b.nan /\ a.ms >= b.ms
LtNum(a, b) == ~a.nan /\ ~b.nan /\ a.ms < b.ms
LeNum(a, b) == ~a.nan /\ ~b.nan /\ a.ms <= b.ms

(* Raw issueDate values of the backend: null/undefined, '', a string that  *)
(* is no date, or an ISO string denoting the instant ms.                   *)
NullDate  == [kind |-> "null",  ms |-> 0]
EmptyDate == [kind |-> "empty", ms |-> 0]
BadDate   == [kind |-> "bad",   ms |-> 0]
IsoDate(n) == [kind |-> "iso", ms |-> n]

DateValues == {NullDate, EmptyDate, BadDate} \cup {IsoDate(n) : n \in 0..MaxMs}

\* JavaScript truthiness of a raw date value (null and '' are falsy)
Truthy(d) == d.kind \in {"bad", "iso"}

\* new Date(d).getTime()
GetTime(d) == IF d.kind = "iso" THEN Num(d.ms) ELSE NaN

----------------------------------------------------------------------------
(* fetchInvoices: the window filter *)

\* t !== null && t >= startMs && t < endMs, with t null for a falsy issueDate
InWindowMut(raw, s, e) ==
    /\ Truthy(raw.issueDate)
    /\ GeNum(GetTime(raw.issueDate), s)
    /\ LeNum(GetTime(raw.issueDate), e)

InWindow(raw, s, e) ==
    /\ Truthy(raw.issueDate)
    /\ GeNum(GetTime(raw.issueDate), s)
    /\ LtNum(GetTime(raw.issueDate), e)

\* normalizeInvoice (paginatedGet variant): issueDate: raw.issueDate || null
normalizeInvoice(raw) ==
    [raw EXCEPT !.issueDate = IF Truthy(raw.issueDate) THEN raw.issueDate ELSE NullDate]

\* all.filter(raw => ...)
FilterSeq(s, a, b) == SelectSeq(s, LAMBDA raw : InWindow(raw, a, b))

MapNormalize(s) == [i \in 1..Len(s) |-> normalizeInvoice(s[i])]

----------------------------------------------------------------------------
(* The backend's listing endpoint: items offset+1 .. offset+limit *)
Min(a, b) == IF a < b THEN a ELSE b

Page(off) == SubSeq(backend, off + 1, Min(off + limit, Len(backend)))

\* if (items.length < limit) break;
IsLastPageMut(items) == Len(items) = 0

IsLastPage(items) == Len(items) < limit

\* offset += limit
NextOffsetMut(off) == off + limit + 1

NextOffset(off) == off + limit

(* Errors.  The HTTP client rejects with an error that carries a message   *)
(* and the request it belongs to (url, here the offset of the page).       *)
NoUrl == 0 - 1
NoReject == [was |-> FALSE, offset |-> 0, message |-> ""]
NoError == [name |-> "none", message |-> <<>>, url |-> NoUrl]
BackendMessages == {"Request failed with status code 500", "Network Error"}
ClientError(m, off) == [name |-> "AxiosError", message |-> <<m>>, url |-> off]

\* paginatedGet has no catch: the client's error propagates unchanged.
\* fetchAllInvoicesPaged: throw new Error(`LeadConnector API error: ${error.message}`)
RaisedError(v, err) ==
    IF v = "paginatedGet" THEN err
    ELSE [name |-> "Error",
          message |-> <<"LeadConnector API error: ">> \o err.message,
          url |-> NoUrl]

\* sleepMs = 250 (paginatedGet's default; fetchAllInvoicesPaged: this.sleep(250))
SleepMs == 250

GetEv(off) == [ev |-> "get", arg |-> off]
SleepEv    == [ev |-> "sleep", arg |-> SleepMs]

\* What a failing page request does to the paginator.
AbortMut(err) ==
    /\ pgPc' = "done"
    /\ pgReturned' = TRUE
    /\ pgResult' = all
    /\ pgError' = NoError

Abort(err) ==
    /\ pgPc' = "failed"
    /\ pgError' = RaisedError(variant, err)
    /\ UNCHANGED <<pgReturned, pgResult>>

\* await this.client.get(...&limit=..&offset=..) resolves
PageRequestOk ==
    /\ pgPc = "request"
    /\ LET items == Page(offset) IN
        /\ pgLog' = Append(pgLog, GetEv(offset))
        /\ all' = all \o items
        /\ IF IsLastPage(items)
           THEN /\ pgPc' = "done"
                /\ pgReturned' = TRUE
                /\ pgResult' = all'
                /\ UNCHANGED offset
           ELSE /\ pgPc' = "sleep"
                /\ offset' = NextOffset(offset)
                /\ UNCHANGED <<pgReturned, pgResult>>
    /\ UNCHANGED <<variant, backend, startMs, endMs, pgError, rejected, fiDone, fiResult>>
    /\ UNCHANGED <<cacheVars, syncVars, rowsVars, extVars>>

\* await this.client.get(...) rejects
PageRequestFail ==
    /\ pgPc = "request"
    /\ \E m \in BackendMessages :
        /\ pgLog' = Append(pgLog, GetEv(offset))
        /\ rejected' = [was |-> TRUE, offset |-> offset, message |-> m]
        /\ Abort(ClientError(m, offset))
    /\ UNCHANGED <<variant, backend, startMs, endMs, offset, all, fiDone, fiResult>>
    /\ UNCHANGED <<cacheVars, syncVars, rowsVars, extVars>>

\* await this.sleep(sleepMs)
PageSleep ==
    /\ pgPc = "sleep"
    /\ pgLog' = Append(pgLog, SleepEv)
    /\ pgPc' = "request"
    /\ UNCHANGED <<variant, backend, startMs, endMs, offset, all, pgReturned,
                   pgResult, pgError, rejected, fiDone, fiResult>>
    /\ UNCHANGED <<cacheVars, syncVars, rowsVars, extVars>>

\* fetchInvoices after the paginator returned: filter (and normalise)
FetchInvoicesReturn ==
    /\ pgPc = "done"
    /\ ~fiDone
    /\ fiDone' = TRUE
    /\ fiResult' = IF variant = "paginatedGet"
                   THEN MapNormalize(FilterSeq(pgResult, startMs, endMs))
                   ELSE FilterSeq(pgResult, startMs, endMs)
    /\ UNCHANGED <<variant, backend, startMs, endMs, pgPc, offset, all, pgLog,
                   pgReturned, pgResult, pgError, rejected>>
    /\ UNCHANGED <<cacheVars, syncVars, rowsVars, extVars>>

----------------------------------------------------------------------------
(* InMemoryCache *)

ContactIds == {"c1", "c2"}

\* const cacheKey = `lc:contact:${contactId}`
CacheKey(contactId) == <<"lc:contact:", contactId>>
Keys == {CacheKey(c) : c \in ContactIds}

\* A Contact as fetchContact builds it; '' stands for an empty or absent text.
Contact(i, n, oid, oname) == [id |-> i, name |-> n, ownerId |-> oid, ownerName |-> oname]
NullValue == Contact("null", "", "", "")

\* const expiresAt = Date.now() + (ttlSeconds * 1000)
ExpiresAtMut(t, ttlSeconds) == t + ttlSeconds

ExpiresAt(t, ttlSeconds) == t + (ttlSeconds * 1000)

\* if (Date.now() > entry.expiresAt)
ExpiredMut(entry, t) == t < entry.expiresAt

Expired(entry, t) == t > entry.expiresAt

Restrict(f, S) == [k \in S |-> f[k]]

\* get(key): the value returned; found = FALSE stands for null
CacheGetResult(c, t, key) ==
    IF key \notin DOMAIN c THEN [found |-> FALSE, value |-> NullValue]
    ELSE IF Expired(c[key], t) THEN [found |-> FALSE, value |-> NullValue]
    ELSE [found |-> TRUE, value |-> c[key].value]

\* get(key): the map it leaves (an expired entry is deleted)
CacheAfterGet(c, t, key) ==
    IF key \in DOMAIN c /\ Expired(c[key], t)
    THEN Restrict(c, DOMAIN c \ {key})
    ELSE c

\* a set that keeps the entry the key already has
CacheSetMut(c, t, key, value, ttlSeconds) ==
    [k \in DOMAIN c \cup {key} |->
        IF k = key /\ k \notin DOMAIN c
        THEN [value |-> value, expiresAt |-> ExpiresAt(t, ttlSeconds)]
        ELSE c[k]]

\* set(key, value, ttlSeconds)
CacheSet(c, t, key, value, ttlSeconds) ==
    [k \in DOMAIN c \cup {key} |->
        IF k = key THEN [value |-> value, expiresAt |-> ExpiresAt(t, ttlSeconds)]
        ELSE c[k]]

\* delete(key)
CacheDelete(c, key) == Restrict(c, DOMAIN c \ {key})

\* clear()
CacheClear == << >>

\* cleanup(): delete every entry with now > entry.expiresAt
CacheCleanup(c, t) == Restrict(c, {k \in DOMAIN c : ~Expired(c[k], t)})

NoRet == [op |-> "none", key |-> <<>>, found |-> FALSE, value |-> NullValue]
NoSet == [live |-> FALSE, value |-> NullValue, at |-> 0, ttl |-> 0]

(* Direct callers of the cache API *)
CacheValues == {Contact("c1", "Ann", "o1", "Rep 1"), Contact("c1", "Ann", "o2", "Rep 2")}
TtlChoices == {0, 1}

CallGet(key) ==
    /\ ret' = [op |-> "get", key |-> key,
               found |-> CacheGetResult(cacheMap, now, key).found,
               value |-> CacheGetResult(cacheMap, now, key).value]
    /\ cacheMap' = CacheAfterGet(cacheMap, now, key)
    /\ UNCHANGED <<now, ticks, lastSet>>
    /\ UNCHANGED <<fetchVars, syncVars, rowsVars, extVars>>

CallSet(key, value, ttlSeconds) ==
    /\ cacheMap' = CacheSet(cacheMap, now, key, value, ttlSeconds)
    /\ lastSet' = [lastSet EXCEPT ![key] =
                      [live |-> TRUE, value |-> value, at |-> now, ttl |-> ttlSeconds]]
    /\ ret' = NoRet
    /\ UNCHANGED <<now, ticks>>
    /\ UNCHANGED <<fetchVars, syncVars, rowsVars, extVars>>

CallDelete(key) ==
    /\ cacheMap' = CacheDelete(cacheMap, key)
    /\ lastSet' = [lastSet EXCEPT ![key] = NoSet]
    /\ ret' = NoRet
    /\ UNCHANGED <<now, ticks>>
    /\ UNCHANGED <<fetchVars, syncVars, rowsVars, extVars>>

CallClear ==
    /\ cacheMap' = CacheClear
    /\ lastSet' = [k \in Keys |-> NoSet]
    /\ ret' = NoRet
    /\ UNCHANGED <<now, ticks>>
    /\ UNCHANGED <<fetchVars, syncVars, rowsVars, extVars>>

\* setInterval(() => cache.cleanup(), 5 * 60 * 1000)
\* (observed: the sweep is recorded in ret, for the callers of SpecCache)
Sweep(observed) ==
    /\ cacheMap' = CacheCleanup(cacheMap, now)
    /\ ret' = IF observed THEN [NoRet EXCEPT !.op = "cleanup"] ELSE NoRet
    /\ UNCHANGED <<now, ticks, lastSet>>
    /\ UNCHANGED <<fetchVars, syncVars, rowsVars, extVars>>

\* the clock advances by d ms, at most n times
Tick(d, n) ==
    /\ ticks < n
    /\ ticks' = ticks + 1
    /\ now' = now + d
    /\ ret' = NoRet
    /\ UNCHANGED <<cacheMap, lastSet>>
    /\ UNCHANGED <<fetchVars, syncVars, rowsVars, extVars>>

----------------------------------------------------------------------------
(* InvoiceService: rows *)

EmptyOwner == [ownerId |-> "", ownerName |-> ""]

Invoice(i, c) == [id |-> i, issueDate |-> IsoDate(1), cid |-> c]

\* contact.id && ownerMap.has(contact.id) ? ownerMap.get(contact.id)! : { '', '' }
\* (cid = "" stands for an invoice without contactDetails or without its id)
OwnerForMut(cid, m) == EmptyOwner

OwnerFor(cid, m) == IF cid # "" /\ cid \in DOMAIN m THEN m[cid] ELSE EmptyOwner

invoiceToRow(inv, m) ==
    [invoice_id   |-> inv.id,
     contact_id   |-> inv.cid,
     owner_id     |-> OwnerFor(inv.cid, m).ownerId,
     owner_name   |-> OwnerFor(inv.cid, m).ownerName]

\* invoices.map(inv => this.invoiceToRow(inv, ownerMap, timezone))
transformToRows(invs, m) == [i \in 1..Len(invs) |-> invoiceToRow(invs[i], m)]

\* what a call leaves of its arguments if it deleted the entries it has read
TransformReadsOnlyMut ==
    /\ trOwnerMap' = Restrict(trOwnerMap,
                          DOMAIN trOwnerMap \ {trInvoices[i].cid : i \in 1..Len(trInvoices)})
    /\ UNCHANGED trInvoices

\* invoiceToRow only reads: inv.x || '', ownerMap.has(contact.id), ownerMap.get(contact.id)
TransformReadsOnly == UNCHANGED <<trInvoices, trOwnerMap>>

Transform ==
    /\ ~trDone
    /\ trDone' = TRUE
    /\ trRows' = transformToRows(trInvoices, trOwnerMap)
    /\ TransformReadsOnly
    /\ UNCHANGED <<trAgain, trRows2>>
    /\ UNCHANGED <<fetchVars, cacheVars, syncVars, extVars>>

\* the same call once more, on the same invoices and the same Map
TransformAgain ==
    /\ trDone
    /\ ~trAgain
    /\ trAgain' = TRUE
    /\ trRows2' = transformToRows(trInvoices, trOwnerMap)
    /\ TransformReadsOnly
    /\ UNCHANGED <<trDone, trRows>>
    /\ UNCHANGED <<fetchVars, cacheVars, syncVars, extVars>>

----------------------------------------------------------------------------
(* LeadConnectorCRM.fetchContact and InvoiceService.buildOwnerLookup *)

Reqs == {1, 2}
Tenants == {"A", "B"}

ContactTtl == 21600

\* a || b on texts
Or(a, b) == IF a # "" THEN a ELSE b

\* What each tenant's CRM returns for GET /contacts/:id (response.data.contact)
RawContact(i, n, oid, objId, asg, asgId, oname, objName, asgName) ==
    [id |-> i, name |-> n, ownerId |-> oid, ownerObjId |-> objId,
     assignedTo |-> asg, assignedToId |-> asgId,
     ownerName |-> oname, ownerObjName |-> objName, assignedToName |-> asgName]

CrmContact(t, c) ==
    CASE t = "A" /\ c = "c1" -> RawContact("c1", "Ann", "oA1", "", "", "", "Rep A1", "", "")
      [] t = "A" /\ c = "c2" -> RawContact("c2", "Bob", "", "", "", "", "", "", "")
      [] t = "B" /\ c = "c1" -> RawContact("c1", "Cy", "", "oB1", "", "", "", "Rep B1", "")
      [] OTHER               -> RawContact("c2", "Di", "", "", "", "oB2", "", "", "Rep B2")

extractOwner(c) ==
    [ownerId   |-> Or(c.ownerId, Or(c.ownerObjId, Or(c.assignedTo, c.assignedToId))),
     ownerName |-> Or(c.ownerName, Or(c.ownerObjName, c.assignedToName))]

\* const contact: Contact = { id, name, ..., ownerId, ownerName }
BuildContact(raw) ==
    Contact(raw.id, raw.name, extractOwner(raw).ownerId, extractOwner(raw).ownerName)

\* if (cached) return cached as Contact;
FetchContactHitMut(res) == FALSE

FetchContactHit(res) == res.found

\* ownerMap.set(contactId, { ownerId: contact.ownerId || '', ownerName: ... })
OwnerOf(contact) == [ownerId |-> contact.ownerId, ownerName |-> contact.ownerName]

MapSet(m, k, v) == [x \in DOMAIN m \cup {k} |-> IF x = k THEN v ELSE m[x]]

InSeq(x, s) == \E i \in 1..Len(s) : s[i] = x

\* every embedded contact id, repeats included
RECURSIVE UniqueIdsMut(_)
UniqueIdsMut(invs) ==
    IF invs = <<>> THEN <<>>
    ELSE LET front == UniqueIdsMut(SubSeq(invs, 1, Len(invs) - 1))
             cid == invs[Len(invs)].cid
         IN IF cid # "" THEN Append(front, cid) ELSE front

\* const contactIds = new Set<string>(); invoices.forEach(... if (cid) contactIds.add(cid))
RECURSIVE UniqueIds(_)
UniqueIds(invs) ==
    IF invs = <<>> THEN <<>>
    ELSE LET front == UniqueIds(SubSeq(invs, 1, Len(invs) - 1))
             cid == invs[Len(invs)].cid
         IN IF cid # "" /\ ~InSeq(cid, front) THEN Append(front, cid) ELSE front

Ev(e, c, contact) == [ev |-> e, id |-> c, contact |-> contact]

\* if (count > 0 && count % 25 === 0) await this.sleep(250)
PauseDue(n) == n > 0 /\ n % 25 = 0

\* POST /sync-invoices: cache.clear() (status.ts only), then the invoices are fetched
StartSync(r) ==
    /\ pc[r] = "start"
    /\ pc' = [pc EXCEPT ![r] = "fetching"]
    /\ cacheMap' = IF route = "status" THEN CacheClear ELSE cacheMap
    /\ UNCHANGED <<now, ticks, ret, lastSet>>
    /\ UNCHANGED <<route, tenant, invoices, contactIds, idx, count, ownerMap,
                   threw, evlog, rows>>
    /\ UNCHANGED <<fetchVars, rowsVars, extVars>>

\* buildOwnerLookup entered: the Set of unique contact ids is collected
EnterLookup(r) ==
    /\ pc[r] = "fetching"
    /\ pc' = [pc EXCEPT ![r] = "loop"]
    /\ contactIds' = [contactIds EXCEPT ![r] = UniqueIds(invoices[r])]
    /\ UNCHANGED <<route, tenant, invoices, idx, count, ownerMap, threw, evlog, rows>>
    /\ UNCHANGED <<fetchVars, cacheVars, rowsVars, extVars>>

\* one iteration up to the await in fetchContact: the pause when due (its
\* suspension is taken together with the call that follows it), cache.get,
\* then either the cached contact or the backend request
BeginLookup(r) ==
    /\ pc[r] = "loop"
    /\ idx[r] <= Len(contactIds[r])
    /\ LET c     == contactIds[r][idx[r]]
           res   == CacheGetResult(cacheMap, now, CacheKey(c))
           pause == IF PauseDue(count[r]) THEN <<Ev("pause", "", NullValue)>> ELSE <<>>
       IN
        /\ cacheMap' = CacheAfterGet(cacheMap, now, CacheKey(c))
        /\ IF FetchContactHit(res)
           THEN /\ evlog' = [evlog EXCEPT ![r] = @ \o pause \o
                                <<Ev("call", c, NullValue), Ev("hit", c, NullValue),
                                  Ev("ok", c, res.value)>>]
                /\ ownerMap' = [ownerMap EXCEPT ![r] = MapSet(@, c, OwnerOf(res.value))]
                /\ count' = [count EXCEPT ![r] = @ + 1]
                /\ idx' = [idx EXCEPT ![r] = @ + 1]
                /\ UNCHANGED pc
           ELSE /\ evlog' = [evlog EXCEPT ![r] = @ \o pause \o
                                <<Ev("call", c, NullValue), Ev("backend", c, NullValue)>>]
                /\ pc' = [pc EXCEPT ![r] = "await"]
                /\ UNCHANGED <<ownerMap, count, idx>>
    /\ UNCHANGED <<now, ticks, ret, lastSet>>
    /\ UNCHANGED <<route, tenant, invoices, contactIds, threw, rows>>
    /\ UNCHANGED <<fetchVars, rowsVars, extVars>>

\* the backend answered: build the contact, cache.set(cacheKey, contact, 21600),
\* return it; buildOwnerLookup records its owner
RespondOk(r) ==
    /\ pc[r] = "await"
    /\ LET c       == contactIds[r][idx[r]]
           contact == BuildContact(CrmContact(tenant[r], c))
       IN
        /\ cacheMap' = CacheSet(cacheMap, now, CacheKey(c), contact, ContactTtl)
        /\ evlog' = [evlog EXCEPT ![r] = Append(@, Ev("ok", c, contact))]
        /\ ownerMap' = [ownerMap EXCEPT ![r] = MapSet(@, c, OwnerOf(contact))]
    /\ count' = [count EXCEPT ![r] = @ + 1]
    /\ idx' = [idx EXCEPT ![r] = @ + 1]
    /\ pc' = [pc EXCEPT ![r] = "loop"]
    /\ UNCHANGED <<now, ticks, ret, lastSet>>
    /\ UNCHANGED <<route, tenant, invoices, contactIds, threw, rows>>
    /\ UNCHANGED <<fetchVars, rowsVars, extVars>>

\* an error that is not caught leaves buildOwnerLookup
LookupFailedMut(r, c) ==
    /\ threw' = [threw EXCEPT ![r] = TRUE]
    /\ pc' = [pc EXCEPT ![r] = "failed"]
    /\ UNCHANGED <<ownerMap, idx>>

\* catch (error) { ownerMap.set(contactId, { ownerId: '', ownerName: '' }) }
LookupFailed(r, c) ==
    /\ ownerMap' = [ownerMap EXCEPT ![r] = MapSet(@, c, EmptyOwner)]
    /\ idx' = [idx EXCEPT ![r] = @ + 1]
    /\ pc' = [pc EXCEPT ![r] = "loop"]
    /\ UNCHANGED threw

\* a rejected request that is cached as a contact without a name or an owner
ThrownBeforeSetMut(c) ==
    /\ cacheMap' = CacheSet(cacheMap, now, CacheKey(c), Contact(c, "", "", ""), ContactTtl)
    /\ UNCHANGED <<now, ticks, ret, lastSet>>

\* await this.client.get(...) throws: cache.set(cacheKey, contact, 21600) is
\* not reached
ThrownBeforeSet(c) == UNCHANGED cacheVars

\* the backend request was rejected: fetchContact throws, nothing is cached
RespondFail(r) ==
    /\ pc[r] = "await"
    /\ evlog' = [evlog EXCEPT ![r] = Append(@, Ev("fail", contactIds[r][idx[r]], NullValue))]
    /\ LookupFailed(r, contactIds[r][idx[r]])
    /\ ThrownBeforeSet(contactIds[r][idx[r]])
    /\ UNCHANGED <<route, tenant, invoices, contactIds, count, rows>>
    /\ UNCHANGED <<fetchVars, rowsVars, extVars>>

\* the loop is over: buildOwnerLookup returns and the handler builds the rows
FinishLookup(r) ==
    /\ pc[r] = "loop"
    /\ idx[r] > Len(contactIds[r])
    /\ rows' = [rows EXCEPT ![r] = transformToRows(invoices[r], ownerMap[r])]
    /\ pc' = [pc EXCEPT ![r] = "done"]
    /\ UNCHANGED <<route, tenant, invoices, contactIds, idx, count, ownerMap, threw, evlog>>
    /\ UNCHANGED <<fetchVars, cacheVars, rowsVars, extVars>>

----------------------------------------------------------------------------
(* paymentService: texts, timestamps and derivePayment *)

(* A text is written from its trimmed, lower-cased form (base): pad says it *)
(* is surrounded by white space, up that it is written in upper case.       *)
Text(b)   == [base |-> b, pad |-> FALSE, up |-> FALSE]
Padded(b) == [base |-> b, pad |-> TRUE,  up |-> FALSE]
Upper(b)  == [base |-> b, pad |-> FALSE, up |-> TRUE]
NoText    == Text("")

\* JavaScript truthiness of a string: any non-empty string, blanks included
TruthyText(t) == t.base # "" \/ t.pad

Trim(t)        == [t EXCEPT !.pad = FALSE]
ToLowerCase(t) == [t EXCEPT !.up = FALSE]

\* const s = (t || '').trim().toLowerCase(); return s === 'cheque' ? 'check' : s
normalizeTypeMut(t) == ToLowerCase(Trim(t))

normalizeType(t) ==
    LET s == ToLowerCase(Trim(t)) IN
    IF s = Text("cheque") THEN Text("check") ELSE s

\* one element of chargeSnapshot.charges.data
Charge(pm, l4, br) == [pmType |-> pm, last4 |-> l4, brand |-> br]
NoCharge == Charge(NoText, "", "")

\* txn.chargeSnapshot; an absent field is the empty text
Snap(mode, chequeNo, checkNo, charges, alt) ==
    [mode |-> mode, chequeNumber |-> chequeNo, checkNumber |-> checkNo,
     charges |-> charges, altType |-> alt]
NoSnap == Snap(NoText, "", "", <<>>, NoText)

(* A detail is the sequence of the pieces its template joins; '' is <<>>.   *)
\* chequeNo ? `#${chequeNo}` : ''
ChequeDetail(chequeNo) == IF chequeNo # "" THEN <<"#", chequeNo>> ELSE <<>>

\* last4 ? `•••• ${last4}${brand ? ` (${brand})` : ''}` : (brand ? `(${brand})` : '')
CardDetail(last4, brand) ==
    IF last4 # ""
    THEN <<"**** ", last4>> \o (IF brand # "" THEN <<" (", brand, ")">> ELSE <<>>)
    ELSE IF brand # "" THEN <<"(", brand, ")">> ELSE <<>>

\* the branch derivePayment takes: manual mode, first charge, generic type
DeriveBranchMut(snap) ==
    IF Len(snap.charges) > 0 /\ TruthyText(snap.charges[1].pmType) THEN "charge"
    ELSE IF TruthyText(snap.mode) THEN "manual"
    ELSE "generic"

DeriveBranch(snap) ==
    IF TruthyText(snap.mode) THEN "manual"
    ELSE IF Len(snap.charges) > 0 /\ TruthyText(snap.charges[1].pmType) THEN "charge"
    ELSE "generic"

derivePayment(txn) ==
    LET snap    == txn.chargeSnapshot
        charge0 == IF Len(snap.charges) > 0 THEN snap.charges[1] ELSE NoCharge
        branch  == DeriveBranch(snap)
    IN
    CASE branch = "manual" ->
            [type   |-> normalizeType(snap.mode),
             detail |-> ChequeDetail(Or(snap.chequeNumber, snap.checkNumber))]
      [] branch = "charge" ->
            [type   |-> normalizeType(charge0.pmType),
             detail |-> CardDetail(charge0.last4, charge0.brand)]
      [] OTHER ->
            [type |-> normalizeType(snap.altType), detail |-> <<>>]

\* a transaction of the backend
Txn(status, eid, esid, f, c, u, snap) ==
    [status |-> status, entityId |-> eid, entitySourceId |-> esid,
     fulfilledAt |-> f, createdAt |-> c, updatedAt |-> u, chargeSnapshot |-> snap]

\* number | null
NullMs == [null |-> TRUE, ms |-> 0]
Ms(n)  == [null |-> FALSE, ms |-> n]

\* txn?.fulfilledAt || txn?.createdAt || txn?.updatedAt || ''
FirstDate(txn) ==
    IF Truthy(txn.fulfilledAt) THEN txn.fulfilledAt
    ELSE IF Truthy(txn.createdAt) THEN txn.createdAt
    ELSE IF Truthy(txn.updatedAt) THEN txn.updatedAt
    ELSE EmptyDate

\* if (!v) return null; const ms = new Date(v).getTime(); return isNaN(ms) ? null : ms
txnTimeMs(txn) ==
    LET v == FirstDate(txn) IN
    IF ~Truthy(v) THEN NullMs
    ELSE IF GetTime(v).nan THEN NullMs
    ELSE Ms(GetTime(v).ms)

\* String(txn?.status || '').toLowerCase() !== 'succeeded' is false
TxnSucceededMut(txn) == txn.status = Text("succeeded")

TxnSucceeded(txn) == ToLowerCase(txn.status) = Text("succeeded")

\* txn?.entityId || txn?.entitySource?.id || ''
InvoiceIdOf(txn) == Or(txn.entityId, txn.entitySourceId)

\* a window that is closed at its end
OutOfWindowMut(t, s, e) == t.null \/ LtNum(Num(t.ms), s) \/ LtNum(e, Num(t.ms))

\* ms === null || ms < startMs || ms >= endMs
OutOfWindow(t, s, e) == t.null \/ LtNum(Num(t.ms), s) \/ GeNum(Num(t.ms), e)

\* none of the four `continue` statements is taken
Contributes(txn, s, e) ==
    /\ TxnSucceeded(txn)
    /\ InvoiceIdOf(txn) # ""
    /\ ~OutOfWindow(txnTimeMs(txn), s, e)
    /\ TruthyText(derivePayment(txn).type)

----------------------------------------------------------------------------
(* paymentService: buildPaymentMap *)

\* { types: new Set(), details: new Set(), latestMs: null, latestType: '', latestDetail: '' }
EmptyBucket ==
    [types |-> {}, details |-> {}, latestMs |-> NullMs,
     latestType |-> NoText, latestDetail |-> <<>>]

\* bucket.latestMs === null || ms > bucket.latestMs
IsLaterMut(ms, latest) == latest.null \/ ms >= latest.ms

IsLater(ms, latest) == latest.null \/ ms > latest.ms

\* bucket.types.add(type); if (detail) bucket.details.add(detail); if (later) {...}
AddToBucket(b, type, detail, ms) ==
    [types        |-> b.types \cup {type},
     details      |-> IF detail # <<>> THEN b.details \cup {detail} ELSE b.details,
     latestMs     |-> IF IsLater(ms, b.latestMs) THEN Ms(ms) ELSE b.latestMs,
     latestType   |-> IF IsLater(ms, b.latestMs) THEN type ELSE b.latestType,
     latestDetail |-> IF IsLater(ms, b.latestMs) THEN detail ELSE b.latestDetail]

\* if (!map.has(invoiceId)) map.set(invoiceId, {...}); const bucket = map.get(invoiceId)!
BucketOf(m, id) == IF id \in DOMAIN m THEN m[id] ELSE EmptyBucket

\* one iteration of for (const txn of transactions) that ends in a `continue`
PaySkip ==
    /\ payPc = "loop"
    /\ payIdx <= Len(transactions)
    /\ ~Contributes(transactions[payIdx], payStartMs, payEndMs)
    /\ payIdx' = payIdx + 1
    /\ UNCHANGED <<transactions, payStartMs, payEndMs, paymentMap, contrib,
                   payInvoices, payPc, payRows>>
    /\ UNCHANGED payRest

\* one iteration that reaches the bucket of the transaction's invoice
PayContribute ==
    /\ payPc = "loop"
    /\ payIdx <= Len(transactions)
    /\ Contributes(transactions[payIdx], payStartMs, payEndMs)
    /\ LET txn == transactions[payIdx]
           id  == InvoiceIdOf(txn)
           ms  == txnTimeMs(txn).ms
           dp  == derivePayment(txn)
       IN
        /\ paymentMap' = MapSet(paymentMap, id,
                                AddToBucket(BucketOf(paymentMap, id), dp.type, dp.detail, ms))
        /\ contrib' = Append(contrib, [pos |-> payIdx, id |-> id, ms |-> ms,
                                       type |-> dp.type, detail |-> dp.detail])
    /\ payIdx' = payIdx + 1
    /\ UNCHANGED <<transactions, payStartMs, payEndMs, payInvoices, payPc, payRows>>
    /\ UNCHANGED payRest

----------------------------------------------------------------------------
(* paymentService: toPaymentTypeRows *)

DayMs == 86400000

\* the days of the months of 1970
MonthLengths == <<31, 28, 31, 30, 31, 30, 31, 31, 30, 31, 30, 31>>

\* month and day of the month of day d (from 0) of the year, from month m on
RECURSIVE MonthDay(_, _)
MonthDay(d, m) ==
    IF d < MonthLengths[m] THEN [mm |-> m, dd |-> d + 1]
    ELSE MonthDay(d - MonthLengths[m], m + 1)

(* A date cell is month, day and year as numbers; '' is EmptyCell and the   *)
(* text an invalid Date formats to is NaNCell.                              *)
EmptyCell == [mm |-> 0, dd |-> 0, yyyy |-> 0]
NaNCell   == [mm |-> 0 - 1, dd |-> 0 - 1, yyyy |-> 0 - 1]

\* fmtDateMDY(isoStringOrMs, timezone): getUTCMonth() + 1, getUTCDate(), getUTCFullYear()
\* (instants of the year 1970)
fmtDateMDY(d) ==
    IF d.kind \in {"null", "empty"} THEN EmptyCell
    ELSE IF GetTime(d).nan THEN NaNCell
    ELSE [mm   |-> MonthDay(GetTime(d).ms \div DayMs, 1).mm,
          dd   |-> MonthDay(GetTime(d).ms \div DayMs, 1).dd,
          yyyy |-> 1970]

\* new Date(ms).toISOString()
ToISOString(ms) == IsoDate(ms)

\* JavaScript truthiness of number | null: neither null nor 0
TruthyMs(x) == ~x.null /\ x.ms # 0

(* Array.prototype.sort() without a comparator orders by UTF-16 code units. *)
\* the order of the payment types that occur
TypeRank(t) ==
    CASE t.base = "ach"    -> 1
      [] t.base = "card"   -> 2
      [] t.base = "cash"   -> 3
      [] t.base = "check"  -> 4
      [] t.base = "cheque" -> 5
      [] OTHER             -> 0

TypeLess(a, b) == TypeRank(a) < TypeRank(b)

\* the order of the pieces of the details that occur, by their first code unit
PieceRank(p) ==
    CASE p = " ("    -> 1
      [] p = "#"     -> 2
      [] p = "("     -> 3
      [] p = ")"     -> 4
      [] p = "101"   -> 5
      [] p = "202"   -> 6
      [] p = "4242"  -> 7
      [] p = "visa"  -> 8
      [] OTHER       -> 9

RECURSIVE DetailLess(_, _)
DetailLess(a, b) ==
    IF a = <<>> THEN b # <<>>
    ELSE IF b = <<>> THEN FALSE
    ELSE IF Head(a) = Head(b) THEN DetailLess(Tail(a), Tail(b))
    ELSE PieceRank(Head(a)) < PieceRank(Head(b))

\* Array.from(set).sort()
SortSet(S, Less(_, _)) ==
    CHOOSE s \in [1..Cardinality(S) -> S] :
        /\ \A x \in S : \E i \in 1..Cardinality(S) : s[i] = x
        /\ \A i, j \in 1..Cardinality(S) : i < j => Less(s[i], s[j])

\* .join(' + ') of texts given as sequences of pieces
RECURSIVE Join(_)
Join(s) ==
    IF Len(s) = 0 THEN <<>>
    ELSE IF Len(s) = 1 THEN s[1]
    ELSE s[1] \o <<" + ">> \o Join(Tail(s))

AllTypes(p) ==
    LET sorted == SortSet(p.types, TypeLess) IN
    Join([i \in 1..Len(sorted) |-> <<sorted[i].base>>])

AllDetails(p) == Join(SortSet(p.details, DetailLess))

\* an invoice as toPaymentTypeRows reads it (id '' stands for a missing id)
PayInvoice(i) == [id |-> i]

\* the row of one invoice: its id and the five payment cells
paymentRow(inv, m) ==
    LET has == inv.id \in DOMAIN m
        p   == BucketOf(m, inv.id)
    IN
    [invoice_id            |-> inv.id,
     latest_payment_type   |-> IF has THEN p.latestType ELSE NoText,
     latest_payment_detail |-> IF has THEN p.latestDetail ELSE <<>>,
     latest_payment_date   |-> IF has /\ TruthyMs(p.latestMs)
                               THEN fmtDateMDY(ToISOString(p.latestMs.ms))
                               ELSE EmptyCell,
     all_payment_types     |-> IF has THEN AllTypes(p) ELSE <<>>,
     all_payment_details   |-> IF has THEN AllDetails(p) ELSE <<>>]

\* invoices.map(inv => [...])
toPaymentTypeRows(invs, m) == [i \in 1..Len(invs) |-> paymentRow(invs[i], m)]

\* buildPaymentMap returned; the handler builds the rows
PayRows ==
    /\ payPc = "loop"
    /\ payIdx > Len(transactions)
    /\ payRows' = toPaymentTypeRows(payInvoices, paymentMap)
    /\ payPc' = "done"
    /\ UNCHANGED <<transactions, payStartMs, payEndMs, payIdx, paymentMap, contrib,
                   payInvoices>>
    /\ UNCHANGED payRest

\* derivePayment applied to one transaction
Derive ==
    /\ ~dpDone
    /\ dpDone' = TRUE
    /\ dpOut' = derivePayment(dpTxn)
    /\ UNCHANGED dpTxn
    /\ UNCHANGED deriveRest

----------------------------------------------------------------------------
(* invoiceToRow and toPaymentTypeRows: the cells read from the invoice      *)

(* An optional property of a backend object: undefined (absent), null, or   *)
(* a value of its type.                                                     *)
Undefined == [kind |-> "undefined", text |-> "", n |-> 0, b |-> FALSE]
Null      == [kind |-> "null", text |-> "", n |-> 0, b |-> FALSE]
Str(t)    == [kind |-> "string", text |-> t, n |-> 0, b |-> FALSE]
Amt(k)    == [kind |-> "number", text |-> "", n |-> k, b |-> FALSE]
Bool(v)   == [kind |-> "boolean", text |-> "", n |-> 0, b |-> v]

\* v || fallback, on an optional text
OrElse(v, fallback) == IF v.kind = "string" /\ v.text # "" THEN v.text ELSE fallback

\* Number(v || 0), on an optional number
NumberOrZero(v) == IF v.kind = "number" /\ v.n # 0 THEN v.n ELSE 0

\* v ? 'true' : 'false'
TrueFalse(v) == IF v.kind = "boolean" /\ v.b THEN "true" ELSE "false"

\* contactDetails.address, or contact.address || {}
Address(l1, city, state, postal) ==
    [kind |-> "object", addressLine1 |-> l1, city |-> city, state |-> state,
     postalCode |-> postal]

NoAddress(k) == [Address(Undefined, Undefined, Undefined, Undefined) EXCEPT !.kind = k]

AddressOrEmpty(a) == IF a.kind = "object" THEN a ELSE NoAddress("object")

\* inv.contactDetails, or inv.contactDetails || {}
ContactDetails(id, name, email, phoneNo, address) ==
    [kind |-> "object", id |-> id, name |-> name, email |-> email,
     phoneNo |-> phoneNo, address |-> address]

NoContactDetails(k) ==
    [ContactDetails(Undefined, Undefined, Undefined, Undefined, NoAddress("undefined"))
        EXCEPT !.kind = k]

ContactOrEmpty(c) == IF c.kind = "object" THEN c ELSE NoContactDetails("object")

\* an invoice of the backend whose texts all have one shape, and its amounts one
FullInvoice(texts, amounts, issueDate, dueDate, liveMode, contactDetails) ==
    [id |-> texts, invoiceNumber |-> texts, invoiceNumberPrefix |-> texts,
     status |-> texts, amountPaid |-> amounts, amountDue |-> amounts, total |-> amounts,
     issueDate |-> issueDate, dueDate |-> dueDate, liveMode |-> liveMode,
     altType |-> texts, altId |-> texts, companyId |-> texts,
     contactDetails |-> contactDetails]

\* `${inv.invoiceNumberPrefix || 'INV-'}${inv.invoiceNumber || ''}`, as its two pieces
InvoiceDisplay(inv) ==
    <<OrElse(inv.invoiceNumberPrefix, "INV-"), OrElse(inv.invoiceNumber, "")>>

\* the cells of invoiceToRow other than owner_id and owner_name
invoiceToRowCells(inv) ==
    LET contact == ContactOrEmpty(inv.contactDetails)
        addr    == AddressOrEmpty(contact.address)
    IN
    [invoice_id      |-> OrElse(inv.id, ""),
     invoice_number  |-> OrElse(inv.invoiceNumber, ""),
     invoice_display |-> InvoiceDisplay(inv),
     invoice_status  |-> OrElse(inv.status, ""),
     amount_paid     |-> NumberOrZero(inv.amountPaid),
     amount_due      |-> NumberOrZero(inv.amountDue),
     amount_total    |-> NumberOrZero(inv.total),
     issue_date      |-> fmtDateMDY(inv.issueDate),
     due_date        |-> fmtDateMDY(inv.dueDate),
     live_mode       |-> TrueFalse(inv.liveMode),
     alt_type        |-> OrElse(inv.altType, ""),
     alt_id          |-> OrElse(inv.altId, ""),
     company_id      |-> OrElse(inv.companyId, ""),
     contact_id      |-> OrElse(contact.id, ""),
     contact_name    |-> OrElse(contact.name, ""),
     contact_email   |-> OrElse(contact.email, ""),
     contact_phone   |-> OrElse(contact.phoneNo, ""),
     contact_addr1   |-> OrElse(addr.addressLine1, ""),
     contact_city    |-> OrElse(addr.city, ""),
     contact_state   |-> OrElse(addr.state, ""),
     contact_postal  |-> OrElse(addr.postalCode, "")]

\* the first nine cells of a row of toPaymentTypeRows
paymentRowCells(inv) ==
    [invoice_id      |-> OrElse(inv.id, ""),
     invoice_number  |-> OrElse(inv.invoiceNumber, ""),
     invoice_display |-> InvoiceDisplay(inv),
     invoice_status  |-> OrElse(inv.status, ""),
     amount_paid     |-> NumberOrZero(inv.amountPaid),
     amount_due      |-> NumberOrZero(inv.amountDue),
     amount_total    |-> NumberOrZero(inv.total),
     issue_date      |-> fmtDateMDY(inv.issueDate),
     due_date        |-> fmtDateMDY(inv.dueDate)]

NoCells ==
    [invoice_id |-> "", invoice_number |-> "", invoice_display |-> <<"", "">>,
     invoice_status |-> "", amount_paid |-> 0, amount_due |-> 0, amount_total |-> 0,
     issue_date |-> EmptyCell, due_date |-> EmptyCell]

\* invoiceToRow(inv, ownerMap, timezone) returns
InvoiceToRow ==
    /\ ~clRowDone
    /\ clRowDone' = TRUE
    /\ clRow' = invoiceToRowCells(clInv)
    /\ UNCHANGED <<clInv, clPayDone, clPayRow>>
    /\ UNCHANGED cellRest

\* the callback of toPaymentTypeRows' invoices.map returns
PaymentTypeRow ==
    /\ ~clPayDone
    /\ clPayDone' = TRUE
    /\ clPayRow' = paymentRowCells(clInv)
    /\ UNCHANGED <<clInv, clRowDone, clRow>>
    /\ UNCHANGED cellRest

----------------------------------------------------------------------------
(* authMiddleware *)

\* req.headers.authorization: absent, or a text that starts with 'Bearer '
\* or does not; rest is what follows the scheme
NoHeader == [present |-> FALSE, bearer |-> FALSE, rest |-> NoText]
Header(bearer, rest) == [present |-> TRUE, bearer |-> bearer, rest |-> rest]

\* !authHeader || !authHeader.startsWith('Bearer ')
HeaderInvalid(h) == ~h.present \/ ~h.bearer

\* authHeader.replace('Bearer ', '').trim()
ProvidedSecret(h) == Trim(h.rest)

\* JavaScript truthiness of an optional value
TruthyVal(v) ==
    \/ v.kind = "string" /\ v.text # ""
    \/ v.kind = "number" /\ v.n # 0
    \/ v.kind = "boolean" /\ v.b

\* req.body?.clientId || req.query?.clientId || req.headers['x-client-id']
ClientIdOf(req) ==
    IF TruthyVal(req.body) THEN req.body
    ELSE IF TruthyVal(req.query) THEN req.query
    ELSE req.xClientId

\* !clientId || typeof clientId !== 'string'
ClientIdInvalid(id) == ~TruthyVal(id) \/ id.kind # "string"

\* the configurations under clients/: clientId and apiSecret
ClientConfig(id, secret) == [found |-> TRUE, clientId |-> id, apiSecret |-> secret]
NoClientConfig == [found |-> FALSE, clientId |-> "", apiSecret |-> NoText]

\* clientConfigLoader.load(clientId), when it resolves
LoadConfig(id) ==
    CASE id = "acme" -> ClientConfig("acme", Text("s1"))
      [] id = "beta" -> ClientConfig("beta", Text("s2"))
      [] OTHER       -> NoClientConfig

\* a check that accepts any secret
SecretMatchesMut(provided, config) == TRUE

\* !(providedSecret !== clientConfig.apiSecret)
SecretMatches(provided, config) == provided = config.apiSecret

\* res.status(code).json(...); return
Respond(code) ==
    /\ auStatus' = Append(auStatus, code)
    /\ auPc' = "done"
    /\ UNCHANGED <<auNext, auAttached>>

\* the middleware up to the await: the header, the secret and the clientId
AuthCheck ==
    /\ auPc = "start"
    /\ IF HeaderInvalid(auReq.authorization) THEN Respond(401)
       ELSE IF ~TruthyText(ProvidedSecret(auReq.authorization)) THEN Respond(401)
       ELSE IF ClientIdInvalid(ClientIdOf(auReq)) THEN Respond(400)
       ELSE /\ auPc' = "loading"
            /\ UNCHANGED <<auStatus, auNext, auAttached>>
    /\ UNCHANGED <<auReq, auLoadThrew>>
    /\ UNCHANGED authRest

\* load resolved: 404 without a configuration, 401 for another secret, else
\* req.clientConfig = clientConfig; req.clientId = clientId; next()
AuthLoaded ==
    /\ auPc = "loading"
    /\ LET config == LoadConfig(ClientIdOf(auReq).text) IN
        IF ~config.found THEN Respond(404)
        ELSE IF ~SecretMatches(ProvidedSecret(auReq.authorization), config) THEN Respond(401)
        ELSE /\ auAttached' = config
             /\ auNext' = auNext + 1
             /\ auPc' = "done"
             /\ UNCHANGED auStatus
    /\ UNCHANGED <<auReq, auLoadThrew>>
    /\ UNCHANGED authRest

\* load rejected: catch (error) { res.status(500).json(...) }
AuthLoadThrows ==
    /\ auPc = "loading"
    /\ auLoadThrew' = TRUE
    /\ Respond(500)
    /\ UNCHANGED auReq
    /\ UNCHANGED authRest

----------------------------------------------------------------------------
(* monthWindowLocalMs and fetchInvoicesForMonth: new Date(year, monthIndex, 1) *)
(* Instants are counted in hours since 1970-01-01T00:00Z here (getTime() is   *)
(* 3 600 000 times as much); every instant that occurs is a whole hour.       *)

IsLeap(y) == (y % 4 = 0 /\ y % 100 # 0) \/ y % 400 = 0

\* the days of month index mi (0 = January) of year y
DaysIn(y, mi) ==
    IF mi = 1 THEN (IF IsLeap(y) THEN 29 ELSE 28)
    ELSE IF mi \in {3, 5, 8, 10} THEN 30
    ELSE 31

\* the leap years before year y
LeapsBefore(y) == ((y - 1) \div 4) - ((y - 1) \div 100) + ((y - 1) \div 400)

\* days from 1970-01-01 to January 1 of year y
DaysToYear(y) == 365 * (y - 1970) + LeapsBefore(y) - LeapsBefore(1970)

\* days from January 1 of year y to the first day of month index mi
RECURSIVE DaysToMonth(_, _)
DaysToMonth(y, mi) == IF mi = 0 THEN 0 ELSE DaysToMonth(y, mi - 1) + DaysIn(y, mi - 1)

\* days from 1970-01-01 to the given day; month index 0..11
DayNumber(y, mi, d) == DaysToYear(y) + DaysToMonth(y, mi) + (d - 1)

\* the day of the week of a day number (0 = Sunday; 1970-01-01 was a Thursday)
WeekDay(n) == (n + 4) % 7

\* the first Sunday of month index mi on or after day d
FirstSundayFrom(y, mi, d) ==
    CHOOSE s \in d..(d + 6) : WeekDay(DayNumber(y, mi, s)) = 0

\* the offset of local time from UTC, in hours, at local midnight of a day:
\* America/New_York is on daylight time after the second Sunday of March up
\* to and including the first Sunday of November
UtcOffset(zone, y, mi, d) ==
    IF zone = "UTC" THEN 0
    ELSE LET n == DayNumber(y, mi, d) IN
         IF /\ n > DayNumber(y, 2, FirstSundayFrom(y, 2, 8))
            /\ n <= DayNumber(y, 10, FirstSundayFrom(y, 10, 1))
         THEN 0 - 4
         ELSE 0 - 5

\* a month index of 12 taken as January of the same year
DateMut(zone, year, monthIndex, day) ==
    DayNumber(year, monthIndex % 12, day) * 24 - UtcOffset(zone, year, monthIndex % 12, day)

\* new Date(year, monthIndex, day, 0, 0, 0).getTime(): local midnight; a month
\* index of 12 is January of the following year
Date(zone, year, monthIndex, day) ==
    LET y  == year + (monthIndex \div 12)
        mi == monthIndex % 12
    IN DayNumber(y, mi, day) * 24 - UtcOffset(zone, y, mi, day)

\* monthWindowLocalMs(year, month1to12)
monthWindowLocalMs(zone, year, month1to12) ==
    [startMs |-> Date(zone, year, month1to12 - 1, 1),
     endMs   |-> Date(zone, year, month1to12, 1)]

NoWindow == [startMs |-> 0, endMs |-> 0]

\* monthWindowLocalMs(year, month) returns
CallMonthWindow ==
    /\ ~mwDone
    /\ mwDone' = TRUE
    /\ mwOut' = monthWindowLocalMs(mwZone, mwYear, mwMonth)
    /\ UNCHANGED <<mwZone, mwYear, mwMonth, mwFetched, mwFetch>>
    /\ UNCHANGED monthRest

\* fetchInvoicesForMonth(year, month) calls crm.fetchInvoices(start, end)
FetchInvoicesForMonth ==
    /\ ~mwFetched
    /\ mwFetched' = TRUE
    /\ mwFetch' = [startMs |-> Date(mwZone, mwYear, mwMonth - 1, 1),
                   endMs   |-> Date(mwZone, mwYear, mwMonth, 1)]
    /\ UNCHANGED <<mwZone, mwYear, mwMonth, mwDone, mwOut>>
    /\ UNCHANGED monthRest

----------------------------------------------------------------------------
(* Initial states *)

Variants == {"paginatedGet", "fetchAllInvoicesPaged"}

RawInvoice(i, d) == [id |-> i, issueDate |-> d, cid |-> "c1"]

\* backends: long lists of identical shape, and short lists with any dates
LongBackends == {[i \in 1..n |-> RawInvoice(i, IsoDate(1))] : n \in 0..MaxItems}

ShortBackends ==
    UNION {{[i \in 1..n |-> RawInvoice(i, f[i])] : f \in [1..n -> DateValues]}
           : n \in 0..MaxSmall}

WindowEnds == {NaN} \cup {Num(n) : n \in 0..MaxMs}

\* invoice lists: every embedded contact id is absent (""), "c1" or "c2"
\* (every list up to MaxInv, and one longer list with a repeated id and a gap)
InvoiceLists ==
    UNION {{[i \in 1..n |-> Invoice(i, f[i])] : f \in [1..n -> ContactIds \cup {""}]}
           : n \in 0..MaxInv}
    \cup {<<Invoice(1, "c1"), Invoice(2, ""), Invoice(3, "c1"), Invoice(4, "c2")>>}

\* the invoices of the second request
SecondLists == {<<>>, <<Invoice(1, "c1")>>, <<Invoice(1, "c2"), Invoice(2, "c1")>>}

OwnerChoices == {EmptyOwner, [ownerId |-> "o1", ownerName |-> "Rep 1"]}
OwnerMaps == UNION {[S -> OwnerChoices] : S \in SUBSET ContactIds}

CacheIdle ==
    /\ cacheMap = << >>
    /\ now = 0
    /\ ticks = 0
    /\ ret = NoRet
    /\ lastSet = [k \in Keys |-> NoSet]

FetchIdle ==
    /\ variant = "paginatedGet"
    /\ backend = <<>>
    /\ startMs = Num(0)
    /\ endMs = Num(0)
    /\ pgPc = "idle"
    /\ offset = 0
    /\ all = <<>>
    /\ pgLog = <<>>
    /\ pgReturned = FALSE
    /\ pgResult = <<>>
    /\ pgError = NoError
    /\ rejected = NoReject
    /\ fiDone = FALSE
    /\ fiResult = <<>>

SyncIdle ==
    /\ route = "sync"
    /\ tenant = [r \in Reqs |-> "A"]
    /\ invoices = [r \in Reqs |-> <<>>]
    /\ pc = [r \in Reqs |-> "idle"]
    /\ contactIds = [r \in Reqs |-> <<>>]
    /\ idx = [r \in Reqs |-> 1]
    /\ count = [r \in Reqs |-> 0]
    /\ ownerMap = [r \in Reqs |-> << >>]
    /\ threw = [r \in Reqs |-> FALSE]
    /\ evlog = [r \in Reqs |-> <<>>]
    /\ rows = [r \in Reqs |-> <<>>]

RowsIdle ==
    /\ trInvoices = <<>>
    /\ trOwnerMap = << >>
    /\ trDone = TRUE
    /\ trRows = <<>>
    /\ trAgain = TRUE
    /\ trRows2 = <<>>

PayIdle ==
    /\ transactions = <<>>
    /\ payStartMs = Num(0)
    /\ payEndMs = Num(0)
    /\ payIdx = 1
    /\ paymentMap = << >>
    /\ contrib = <<>>
    /\ payInvoices = <<>>
    /\ payPc = "idle"
    /\ payRows = <<>>

DeriveIdle ==
    /\ dpTxn = Txn(NoText, "", "", EmptyDate, EmptyDate, EmptyDate, NoSnap)
    /\ dpDone = TRUE
    /\ dpOut = [type |-> NoText, detail |-> <<>>]

PauseIdle ==
    /\ plContacts = 0
    /\ plPc = "idle"
    /\ plIdx = 0
    /\ plCount = 0
    /\ plIssued = 0
    /\ plSince = 0
    /\ plPauseAt = 0 - 1

ApptIdle ==
    /\ apUserIds = <<>>
    /\ apCalendar = << >>
    /\ apPc = "idle"
    /\ apUser = 1
    /\ apAll = <<>>
    /\ apBf = 1
    /\ apLog = <<>>
    /\ apReturned = FALSE
    /\ apResult = <<>>
    /\ apFailed = ""

FacIdle ==
    /\ facConfig = [type |-> "", apiToken |-> "", locationId |-> "", apiVersion |-> ""]
    /\ facCalled = TRUE
    /\ facOut = [kind |-> "none", message |-> <<>>,
                 connector |-> [locationId |-> "", apiToken |-> "", apiVersion |-> ""]]
    /\ hasCalled = TRUE
    /\ hasOut = FALSE

PsIdle ==
    /\ psLen = [f \in {"invoices", "transactions"} |-> 0]
    /\ psPc = [f \in {"invoices", "transactions"} |-> "idle"]
    /\ psOffset = [f \in {"invoices", "transactions"} |-> 0]
    /\ psInFlight = {}

CellIdle ==
    /\ clInv = FullInvoice(Undefined, Undefined, NullDate, NullDate, Undefined,
                           NoContactDetails("undefined"))
    /\ clRowDone = TRUE
    /\ clRow = NoCells
    /\ clPayDone = TRUE
    /\ clPayRow = NoCells

AuthIdle ==
    /\ auReq = [authorization |-> NoHeader, body |-> Undefined, query |-> Undefined,
                xClientId |-> Undefined]
    /\ auPc = "idle"
    /\ auStatus = <<>>
    /\ auNext = 0
    /\ auAttached = NoClientConfig
    /\ auLoadThrew = FALSE

ValIdle ==
    /\ vlReq = [route |-> "sync-invoices", crm |-> [type |-> "spreadsheet", apiToken |-> "", locationId |-> "",
                        apiVersion |-> ""],
                action |-> "", startDate |-> "", endDate |-> ""]
    /\ vlPc = "idle"
    /\ vlStatus = 0
    /\ vlError = ""
    /\ vlCreated = 0
    /\ vlFetches = 0

MonthIdle ==
    /\ mwZone = "UTC"
    /\ mwYear = 1970
    /\ mwMonth = 1
    /\ mwDone = TRUE
    /\ mwOut = [startMs |-> 0, endMs |-> 0]
    /\ mwFetched = TRUE
    /\ mwFetch = [startMs |-> 0, endMs |-> 0]

LateIdle == CellIdle /\ AuthIdle /\ ValIdle /\ MonthIdle

ExtIdle == PayIdle /\ DeriveIdle /\ PauseIdle /\ ApptIdle /\ FacIdle /\ PsIdle /\ LateIdle

CoreIdle == FetchIdle /\ CacheIdle /\ SyncIdle /\ RowsIdle

(* SpecFetch: fetchInvoices over the paginator *)
InitFetch ==
    /\ variant \in Variants
    /\ \/ /\ backend \in LongBackends
          /\ startMs = Num(0)
          /\ endMs = Num(MaxMs)
       \/ /\ backend \in ShortBackends
          /\ startMs \in WindowEnds
          /\ endMs \in WindowEnds
    /\ pgPc = "request"
    /\ offset = 0
    /\ all = <<>>
    /\ pgLog = <<>>
    /\ pgReturned = FALSE
    /\ pgResult = <<>>
    /\ pgError = NoError
    /\ rejected = NoReject
    /\ fiDone = FALSE
    /\ fiResult = <<>>
    /\ CacheIdle
    /\ SyncIdle
    /\ RowsIdle
    /\ ExtIdle

\* the paginator alone, over the long backends
InitPage == InitFetch /\ backend \in LongBackends

NextFetch ==
    \/ PageRequestOk
    \/ PageRequestFail
    \/ PageSleep
    \/ FetchInvoicesReturn

SpecFetch == InitFetch /\ [][NextFetch]_vars

\* every request is answered or times out, and every timer fires
FairSpecPage == InitPage /\ [][NextFetch]_vars /\ WF_vars(NextFetch)

(* SpecCache: the cache API under arbitrary direct calls *)
InitCache == CacheIdle /\ FetchIdle /\ SyncIdle /\ RowsIdle /\ ExtIdle

NextCache ==
    \/ \E key \in Keys : CallGet(key)
    \/ \E key \in Keys, value \in CacheValues, ttlSeconds \in TtlChoices :
          CallSet(key, value, ttlSeconds)
    \/ \E key \in Keys : CallDelete(key)
    \/ CallClear
    \/ Sweep(TRUE)
    \/ \E d \in {1, 999} : Tick(d, MaxTicks)

SpecCache == InitCache /\ [][NextCache]_vars

(* SpecRows: transformToRows on any invoice list and any owner map *)
InitRows ==
    /\ trInvoices \in InvoiceLists
    /\ trOwnerMap \in OwnerMaps
    /\ trDone = FALSE
    /\ trRows = <<>>
    /\ trAgain = FALSE
    /\ trRows2 = <<>>
    /\ CacheIdle
    /\ FetchIdle
    /\ SyncIdle
    /\ ExtIdle

NextRows == Transform \/ TransformAgain

SpecRows == InitRows /\ [][NextRows]_vars

(* Spec: two sync requests served by one process, sharing the cache *)
Init ==
    /\ route \in {"status", "sync"}
    /\ tenant \in {t \in [Reqs -> Tenants] : t[1] = "A"}
    /\ invoices \in {v \in [Reqs -> InvoiceLists] : v[2] \in SecondLists}
    /\ pc = [r \in Reqs |-> "start"]
    /\ contactIds = [r \in Reqs |-> <<>>]
    /\ idx = [r \in Reqs |-> 1]
    /\ count = [r \in Reqs |-> 0]
    /\ ownerMap = [r \in Reqs |-> << >>]
    /\ threw = [r \in Reqs |-> FALSE]
    /\ evlog = [r \in Reqs |-> <<>>]
    /\ rows = [r \in Reqs |-> <<>>]
    /\ CacheIdle
    /\ FetchIdle
    /\ RowsIdle
    /\ ExtIdle

Next ==
    \/ \E r \in Reqs : StartSync(r)
    \/ \E r \in Reqs : EnterLookup(r)
    \/ \E r \in Reqs : BeginLookup(r)
    \/ \E r \in Reqs : RespondOk(r)
    \/ \E r \in Reqs : RespondFail(r)
    \/ \E r \in Reqs : FinishLookup(r)
    \/ Sweep(FALSE)
    \/ \E d \in {1, ContactTtl * 1000 + 1} : Tick(d, MaxSyncTicks)

Spec == Init /\ [][Next]_vars

(* SpecLater: two sync requests of one tenant over the same invoices, the   *)
(* second started after the first has completed, all within the TTL         *)

\* the second request arrives when the first has been answered
StartLater == pc[1] = "done" /\ StartSync(2)

InitLater ==
    /\ route \in {"status", "sync"}
    /\ tenant = [r \in Reqs |-> "A"]
    /\ invoices \in {v \in [Reqs -> InvoiceLists] : v[2] = v[1]}
    /\ pc = [r \in Reqs |-> "start"]
    /\ contactIds = [r \in Reqs |-> <<>>]
    /\ idx = [r \in Reqs |-> 1]
    /\ count = [r \in Reqs |-> 0]
    /\ ownerMap = [r \in Reqs |-> << >>]
    /\ threw = [r \in Reqs |-> FALSE]
    /\ evlog = [r \in Reqs |-> <<>>]
    /\ rows = [r \in Reqs |-> <<>>]
    /\ CacheIdle
    /\ FetchIdle
    /\ RowsIdle
    /\ ExtIdle

NextLater ==
    \/ StartSync(1)
    \/ StartLater
    \/ \E r \in Reqs : EnterLookup(r)
    \/ \E r \in Reqs : BeginLookup(r)
    \/ \E r \in Reqs : RespondOk(r)
    \/ \E r \in Reqs : RespondFail(r)
    \/ \E r \in Reqs : FinishLookup(r)
    \/ Sweep(FALSE)
    \/ Tick(1, MaxSyncTicks)

SpecLater == InitLater /\ [][NextLater]_vars

----------------------------------------------------------------------------
(* SpecPay: buildPaymentMap and toPaymentTypeRows on bounded inputs *)

Day(n) == IsoDate(n * DayMs)

CashSnap   == Snap(Text("cash"), "", "", <<>>, NoText)
ChequeSnap == Snap(Text("cheque"), "101", "", <<>>, NoText)
CardSnap   == Snap(NoText, "", "", <<Charge(Text("card"), "4242", "visa")>>, NoText)

Statuses == {Text("succeeded"), Upper("succeeded"), Padded("succeeded"),
             Text("pending"), NoText}

\* transactions that differ in one respect: status, day, invoice id,
\* timestamp fields, charge snapshot
TxnShapes ==
    {Txn(st, "i1", "", Day(1), EmptyDate, EmptyDate, CashSnap) : st \in Statuses}
    \cup {Txn(Text("succeeded"), "i1", "", Day(n), EmptyDate, EmptyDate, CashSnap)
             : n \in 0..MaxDay}
    \cup {Txn(Text("succeeded"), "", "i2", Day(1), EmptyDate, EmptyDate, ChequeSnap),
          Txn(Text("succeeded"), "", "", Day(1), EmptyDate, EmptyDate, ChequeSnap),
          Txn(Text("succeeded"), "i1", "i2", Day(1), EmptyDate, EmptyDate, ChequeSnap)}
    \cup {Txn(Text("succeeded"), "i1", "", BadDate, Day(1), EmptyDate, CardSnap),
          Txn(Text("succeeded"), "i1", "", EmptyDate, EmptyDate, EmptyDate, CardSnap),
          Txn(Text("succeeded"), "i1", "", NullDate, Day(1), Day(0), CardSnap),
          Txn(Text("succeeded"), "i1", "", EmptyDate, EmptyDate, Day(MaxDay), CardSnap),
          Txn(Text("succeeded"), "i1", "", EmptyDate, BadDate, Day(1), CardSnap)}
    \cup {Txn(Text("succeeded"), "i1", "", Day(1), EmptyDate, EmptyDate, snap) : snap \in
             {NoSnap,
              Snap(Text("check"), "", "202", <<>>, NoText),
              Snap(Padded(""), "101", "", <<Charge(Text("card"), "", "")>>, NoText),
              Snap(NoText, "", "", <<Charge(Text("card"), "", "visa")>>, NoText),
              Snap(NoText, "", "", <<Charge(NoText, "4242", "visa")>>, Text("ach")),
              Snap(Upper("cheque"), "", "", <<>>, NoText)}}

TxnLists ==
    UNION {[1..n -> TxnShapes] : n \in 0..MaxTxn}

\* windows [a, b) in days
PayWindows == {<<a, b>> : a \in {0, 1}, b \in {MaxDay, MaxDay + 1}}

\* invoices with a bucket, without an id, and without a bucket
PayInvoiceList == <<PayInvoice("i1"), PayInvoice(""), PayInvoice("i3"), PayInvoice("i2")>>

InitPay ==
    /\ transactions \in TxnLists
    /\ \E w \in PayWindows :
          /\ payStartMs = Num(w[1] * DayMs)
          /\ payEndMs = Num(w[2] * DayMs)
    /\ payIdx = 1
    /\ paymentMap = << >>
    /\ contrib = <<>>
    /\ payInvoices = PayInvoiceList
    /\ payPc = "loop"
    /\ payRows = <<>>
    /\ CoreIdle
    /\ DeriveIdle /\ PauseIdle /\ ApptIdle /\ FacIdle /\ PsIdle /\ LateIdle

NextPay ==
    \/ PaySkip
    \/ PayContribute
    \/ PayRows

SpecPay == InitPay /\ [][NextPay]_vars

(* SpecDerive: derivePayment on any charge snapshot *)
Modes == {NoText, Text("cheque"), Text("check"), Padded(""),
          [base |-> "cash", pad |-> TRUE, up |-> TRUE]}

ChargeShapes ==
    {Charge(pm, l4, br) :
        pm \in {NoText, Text("card"), [base |-> "cheque", pad |-> TRUE, up |-> TRUE]},
        l4 \in {"", "4242"},
        br \in {"", "visa"}}

ChargeLists == UNION {[1..n -> ChargeShapes] : n \in 0..MaxCharges}

Snaps ==
    {Snap(mode, chequeNo, checkNo, charges, alt) :
        mode \in Modes, chequeNo \in {"", "101"}, checkNo \in {"", "202"},
        charges \in ChargeLists, alt \in {NoText, Text("ach"), Upper("cheque")}}

InitDerive ==
    /\ dpTxn \in {Txn(Text("succeeded"), "i1", "", Day(0), EmptyDate, EmptyDate, snap)
                     : snap \in Snaps}
    /\ dpDone = FALSE
    /\ dpOut = [type |-> NoText, detail |-> <<>>]
    /\ CoreIdle
    /\ PayIdle /\ PauseIdle /\ ApptIdle /\ FacIdle /\ PsIdle /\ LateIdle

NextDerive == Derive

SpecDerive == InitDerive /\ [][NextDerive]_vars

----------------------------------------------------------------------------
(* SpecPause: the pacing of buildOwnerLookup over many contacts; each      *)
(* fetchContact call either returns a contact or throws                    *)

\* if (count > 0 && count % 25 === 0) await this.sleep(250)
PlPause ==
    /\ plPc = "top"
    /\ plIdx < plContacts
    /\ PauseDue(plCount)
    /\ plPc' = "call"
    /\ plSince' = 0
    /\ plPauseAt' = plIssued
    /\ UNCHANGED <<plContacts, plIdx, plCount, plIssued>>
    /\ UNCHANGED pauseRest

\* await this.crm.fetchContact(contactId) is entered
PlCall ==
    /\ plIdx < plContacts
    /\ plPc = "call" \/ (plPc = "top" /\ ~PauseDue(plCount))
    /\ plPc' = "await"
    /\ plIssued' = plIssued + 1
    /\ plSince' = plSince + 1
    /\ UNCHANGED <<plContacts, plIdx, plCount, plPauseAt>>
    /\ UNCHANGED pauseRest

\* fetchContact returned: ownerMap.set(...); count++
PlOk ==
    /\ plPc = "await"
    /\ plCount' = plCount + 1
    /\ plIdx' = plIdx + 1
    /\ plPc' = "top"
    /\ UNCHANGED <<plContacts, plIssued, plSince, plPauseAt>>
    /\ UNCHANGED pauseRest

\* fetchContact threw: catch (error) { ownerMap.set(contactId, empty owner) }
PlFail ==
    /\ plPc = "await"
    /\ plIdx' = plIdx + 1
    /\ plPc' = "top"
    /\ UNCHANGED <<plContacts, plCount, plIssued, plSince, plPauseAt>>
    /\ UNCHANGED pauseRest

\* the for..of loop is over: return ownerMap
PlReturn ==
    /\ plPc = "top"
    /\ plIdx = plContacts
    /\ plPc' = "done"
    /\ UNCHANGED <<plContacts, plIdx, plCount, plIssued, plSince, plPauseAt>>
    /\ UNCHANGED pauseRest

InitPause ==
    /\ plContacts \in 0..MaxContacts
    /\ plPc = "top"
    /\ plIdx = 0
    /\ plCount = 0
    /\ plIssued = 0
    /\ plSince = 0
    /\ plPauseAt = 0 - 1
    /\ CoreIdle
    /\ PayIdle /\ DeriveIdle /\ ApptIdle /\ FacIdle /\ PsIdle /\ LateIdle

NextPause ==
    \/ PlPause
    \/ PlCall
    \/ PlOk
    \/ PlFail
    \/ PlReturn

SpecPause == InitPause /\ [][NextPause]_vars

----------------------------------------------------------------------------
(* LeadConnectorCRM.fetchAppointments *)

Users == {"u1", "u2"}

\* a raw calendar event; an absent field is ''
RawEvent(i, cid, cObjId, cname, cObjName) ==
    [id |-> i, contactId |-> cid, contactObjId |-> cObjId,
     contactName |-> cname, contactObjName |-> cObjName]

\* normalizeAppointment(evt, userId)
normalizeAppointment(evt, userId) ==
    [id          |-> evt.id,
     userId      |-> userId,
     contactId   |-> Or(evt.contactId, evt.contactObjId),
     contactName |-> Or(evt.contactName, evt.contactObjName)]

\* events.map((evt: any) => this.normalizeAppointment(evt, userId))
NormalizeEvents(events, userId) ==
    [i \in 1..Len(events) |-> normalizeAppointment(events[i], userId)]

\* if (!apt.contactName && apt.contactId)
NeedsBackfill(apt) == apt.contactName = "" /\ apt.contactId # ""

\* a calendar request for a user (res: how it ended), the pause after it, or
\* the outcome of the contact lookup for the appointment at position at
ApEv(e, u, res, at, n) == [ev |-> e, user |-> u, res |-> res, at |-> at, name |-> n]

\* What a rejected calendar request does to fetchAppointments.
ApAbortMut(userId) ==
    /\ apPc' = "sleep"
    /\ UNCHANGED apFailed

\* the rejection is not caught: it leaves fetchAppointments
ApAbort(userId) ==
    /\ apPc' = "failed"
    /\ apFailed' = userId

\* await this.client.get(path) resolves; all.push(...events.map(...))
ApRequestOk ==
    /\ apPc = "users"
    /\ apLog' = Append(apLog, ApEv("get", apUserIds[apUser], "resolved", 0, ""))
    /\ apAll' = apAll \o NormalizeEvents(apCalendar[apUserIds[apUser]], apUserIds[apUser])
    /\ apPc' = "sleep"
    /\ UNCHANGED <<apUserIds, apCalendar, apUser, apBf, apReturned, apResult, apFailed>>
    /\ UNCHANGED <<cacheVars, apptRest>>

\* await this.client.get(path) rejects
ApRequestFail ==
    /\ apPc = "users"
    /\ apLog' = Append(apLog, ApEv("get", apUserIds[apUser], "rejected", 0, ""))
    /\ ApAbort(apUserIds[apUser])
    /\ UNCHANGED <<apUserIds, apCalendar, apUser, apAll, apBf, apReturned, apResult>>
    /\ UNCHANGED <<cacheVars, apptRest>>

\* await this.sleep(150), then the next user or the backfill loop
ApSleep ==
    /\ apPc = "sleep"
    /\ apLog' = Append(apLog, ApEv("sleep", "", "", 0, ""))
    /\ apUser' = apUser + 1
    /\ apPc' = IF apUser + 1 <= Len(apUserIds) THEN "users" ELSE "backfill"
    /\ UNCHANGED <<apUserIds, apCalendar, apAll, apBf, apReturned, apResult, apFailed>>
    /\ UNCHANGED <<cacheVars, apptRest>>

\* an appointment that has a contact name, or no contact id, is passed over
ApBackfillSkip ==
    /\ apPc = "backfill"
    /\ apBf <= Len(apAll)
    /\ ~NeedsBackfill(apAll[apBf])
    /\ apBf' = apBf + 1
    /\ UNCHANGED <<apUserIds, apCalendar, apPc, apUser, apAll, apLog, apReturned,
                   apResult, apFailed>>
    /\ UNCHANGED <<cacheVars, apptRest>>

\* fetchContact(apt.contactId) up to its await: the cached contact, or the
\* backend request
ApBackfillLookup ==
    /\ apPc = "backfill"
    /\ apBf <= Len(apAll)
    /\ NeedsBackfill(apAll[apBf])
    /\ LET c   == apAll[apBf].contactId
           res == CacheGetResult(cacheMap, now, CacheKey(c))
       IN
        /\ cacheMap' = CacheAfterGet(cacheMap, now, CacheKey(c))
        /\ IF FetchContactHit(res)
           THEN /\ apAll' = [apAll EXCEPT ![apBf].contactName = res.value.name]
                /\ apLog' = Append(apLog, ApEv("hit", "", "", apBf, res.value.name))
                /\ apBf' = apBf + 1
                /\ UNCHANGED apPc
           ELSE /\ apLog' = Append(apLog, ApEv("backend", "", "", apBf, ""))
                /\ apPc' = "await"
                /\ UNCHANGED <<apAll, apBf>>
    /\ UNCHANGED <<now, ticks, ret, lastSet>>
    /\ UNCHANGED <<apUserIds, apCalendar, apUser, apReturned, apResult, apFailed>>
    /\ UNCHANGED apptRest

\* the backend answered: the contact is cached and apt.contactName = contact.name
ApLookupOk ==
    /\ apPc = "await"
    /\ LET c       == apAll[apBf].contactId
           contact == BuildContact(CrmContact("A", c))
       IN
        /\ cacheMap' = CacheSet(cacheMap, now, CacheKey(c), contact, ContactTtl)
        /\ apAll' = [apAll EXCEPT ![apBf].contactName = contact.name]
        /\ apLog' = Append(apLog, ApEv("ok", "", "", apBf, contact.name))
    /\ apBf' = apBf + 1
    /\ apPc' = "backfill"
    /\ UNCHANGED <<now, ticks, ret, lastSet>>
    /\ UNCHANGED <<apUserIds, apCalendar, apUser, apReturned, apResult, apFailed>>
    /\ UNCHANGED apptRest

\* a lookup error that is not caught leaves fetchAppointments
BackfillFailedMut ==
    /\ apPc' = "failed"
    /\ UNCHANGED apBf

\* catch { /* leave contactName empty if lookup fails */ }
BackfillFailed ==
    /\ apPc' = "backfill"
    /\ apBf' = apBf + 1

\* the backend request of fetchContact was rejected
ApLookupFail ==
    /\ apPc = "await"
    /\ apLog' = Append(apLog, ApEv("fail", "", "", apBf, ""))
    /\ BackfillFailed
    /\ UNCHANGED <<apUserIds, apCalendar, apUser, apAll, apReturned, apResult, apFailed>>
    /\ UNCHANGED <<cacheVars, apptRest>>

\* return all
ApReturn ==
    /\ apPc = "backfill"
    /\ apBf > Len(apAll)
    /\ apReturned' = TRUE
    /\ apResult' = apAll
    /\ apPc' = "done"
    /\ UNCHANGED <<apUserIds, apCalendar, apUser, apAll, apBf, apLog, apFailed>>
    /\ UNCHANGED <<cacheVars, apptRest>>

(* SpecAppt: one fetchAppointments call of tenant A *)
UserIdLists == UNION {[1..n -> Users] : n \in 0..MaxUsers}

\* what the backend may hold for one user
EventLists ==
    {<<>>,
     <<RawEvent("e1", "c1", "", "Zed", "")>>,
     <<RawEvent("e2", "c1", "", "", ""), RawEvent("e3", "c1", "", "", "")>>,
     <<RawEvent("e4", "", "", "", ""), RawEvent("e5", "", "c2", "", ""),
       RawEvent("e6", "c2", "", "", "Yves")>>}

\* the cache may still hold a contact that an earlier request fetched
WarmCache ==
    [k \in {CacheKey("c1")} |->
        [value |-> BuildContact(CrmContact("A", "c1")),
         expiresAt |-> ExpiresAt(0, ContactTtl)]]

InitAppt ==
    /\ apUserIds \in UserIdLists
    /\ apCalendar \in [Users -> EventLists]
    /\ apPc = IF apUserIds = <<>> THEN "backfill" ELSE "users"
    /\ apUser = 1
    /\ apAll = <<>>
    /\ apBf = 1
    /\ apLog = <<>>
    /\ apReturned = FALSE
    /\ apResult = <<>>
    /\ apFailed = ""
    /\ cacheMap \in {<< >>, WarmCache}
    /\ now = 0
    /\ ticks = 0
    /\ ret = NoRet
    /\ lastSet = [k \in Keys |-> NoSet]
    /\ FetchIdle /\ SyncIdle /\ RowsIdle
    /\ PayIdle /\ DeriveIdle /\ PauseIdle /\ FacIdle /\ PsIdle /\ LateIdle

NextAppt ==
    \/ ApRequestOk
    \/ ApRequestFail
    \/ ApSleep
    \/ ApBackfillSkip
    \/ ApBackfillLookup
    \/ ApLookupOk
    \/ ApLookupFail
    \/ ApReturn

SpecAppt == InitAppt /\ [][NextAppt]_vars

\* A POST /sync-invoices request of the same process is handled while
\* fetchAppointments is suspended: its handler begins with cache.clear()
OtherSyncStarts ==
    /\ apPc \in {"users", "sleep", "backfill", "await"}
    /\ cacheMap' = CacheClear
    /\ UNCHANGED <<now, ticks, ret, lastSet>>
    /\ UNCHANGED <<apptVars, apptRest>>

NextApptShared == NextAppt \/ OtherSyncStarts

SpecApptShared == InitAppt /\ [][NextApptShared]_vars

----------------------------------------------------------------------------
(* createCRMConnector and hasCRM *)

CRMConfig(t, tok, loc, ver) ==
    [type |-> t, apiToken |-> tok, locationId |-> loc, apiVersion |-> ver]

NoConnector == [locationId |-> "", apiToken |-> "", apiVersion |-> ""]

\* new LeadConnectorCRM({ apiToken, locationId, apiVersion })
LeadConnectorCRM(config) ==
    [locationId |-> config.locationId,
     apiToken   |-> config.apiToken,
     apiVersion |-> Or(config.apiVersion, "2021-07-28")]

Returned(connector) == [kind |-> "connector", message |-> <<>>, connector |-> connector]
Thrown(message)     == [kind |-> "error", message |-> message, connector |-> NoConnector]
NotCalled           == [kind |-> "none", message |-> <<>>, connector |-> NoConnector]

\* if (!config.apiToken || !config.locationId)
CredentialsMissingMut(config) == config.apiToken = "" /\ config.locationId = ""

CredentialsMissing(config) == config.apiToken = "" \/ config.locationId = ""

\* switch (config.type) { ... }
createCRMConnector(config) ==
    CASE config.type = "leadconnector" ->
            IF CredentialsMissing(config)
            THEN Thrown(<<"LeadConnector requires apiToken and locationId">>)
            ELSE Returned(LeadConnectorCRM(config))
      [] config.type = "spreadsheet" ->
            Thrown(<<"Spreadsheet-only mode: Use manual data entry endpoints instead of CRM sync">>)
      [] config.type = "servicetitan" ->
            Thrown(<<"ServiceTitan connector not yet implemented">>)
      [] config.type = "jobber" ->
            Thrown(<<"Jobber connector not yet implemented">>)
      [] OTHER ->
            Thrown(<<"Unsupported CRM type: ", config.type>>)

\* return config.type !== 'spreadsheet'
hasCRM(config) == config.type # "spreadsheet"

CallCreate ==
    /\ ~facCalled
    /\ facCalled' = TRUE
    /\ facOut' = createCRMConnector(facConfig)
    /\ UNCHANGED <<facConfig, hasCalled, hasOut>>
    /\ UNCHANGED facRest

CallHasCRM ==
    /\ ~hasCalled
    /\ hasCalled' = TRUE
    /\ hasOut' = hasCRM(facConfig)
    /\ UNCHANGED <<facConfig, facCalled, facOut>>
    /\ UNCHANGED facRest

(* SpecFactory: both functions on any configuration *)
CrmTypes == {"leadconnector", "servicetitan", "jobber", "spreadsheet", "hubspot", ""}

Configs ==
    {CRMConfig(t, tok, loc, ver) :
        t \in CrmTypes, tok \in {"", "tok"}, loc \in {"", "loc"},
        ver \in {"", "2021-04-15"}}

InitFactory ==
    /\ facConfig \in Configs
    /\ facCalled = FALSE
    /\ facOut = NotCalled
    /\ hasCalled = FALSE
    /\ hasOut = FALSE
    /\ CoreIdle
    /\ PayIdle /\ DeriveIdle /\ PauseIdle /\ ApptIdle /\ PsIdle /\ LateIdle

NextFactory ==
    \/ CallCreate
    \/ CallHasCRM

SpecFactory == InitFactory /\ [][NextFactory]_vars

----------------------------------------------------------------------------
(* POST /sync-invoices and POST /sync-appointments: validation *)

\* the actions the switch of /sync-invoices has a case for
InvoiceActions == {"ytd", "thisMonth", "lastMonth", "last7days", "last30days", "custom"}

\* the action is accepted: a case of the switch, or action === 'ytd'
ActionSupported(r, action) ==
    IF r = "sync-invoices" THEN action \in InvoiceActions ELSE action = "ytd"

\* a test that wants only one of the two dates
DatesMissingMut(req) == req.startDate = "" /\ req.endDate = ""

\* if (!startDate || !endDate)
DatesMissing(req) == req.startDate = "" \/ req.endDate = ""

\* return res.status(code).json({ ok: false, error })
Answer(code, error) ==
    /\ vlStatus' = code
    /\ vlError' = error
    /\ vlPc' = "done"

\* const crm = createCRMConnector(clientConfig.crm): an error is caught by the
\* handler and answered 500 sync_failed
Construct(req, then) ==
    /\ vlCreated' = vlCreated + 1
    /\ IF createCRMConnector(req.crm).kind = "error"
       THEN /\ Answer(500, "sync_failed")
            /\ UNCHANGED vlFetches
       ELSE then

\* the fetch is called: its first backend request is issued and awaited
StartFetch ==
    /\ vlFetches' = vlFetches + 1
    /\ vlPc' = "fetching"
    /\ UNCHANGED <<vlStatus, vlError>>

\* /sync-invoices up to its first await or response: cache.clear(), hasCRM,
\* createCRMConnector, switch (action)
HandleSyncInvoices ==
    /\ vlPc = "start"
    /\ vlReq.route = "sync-invoices"
    /\ cacheMap' = CacheClear
    /\ IF ~hasCRM(vlReq.crm)
       THEN /\ Answer(400, "no_crm_configured")
            /\ UNCHANGED <<vlCreated, vlFetches>>
       ELSE Construct(vlReq,
                IF ~ActionSupported(vlReq.route, vlReq.action)
                THEN /\ Answer(400, "invalid_action")
                     /\ UNCHANGED vlFetches
                ELSE IF vlReq.action = "custom" /\ DatesMissing(vlReq)
                THEN /\ Answer(400, "missing_dates")
                     /\ UNCHANGED vlFetches
                ELSE StartFetch)
    /\ UNCHANGED vlReq
    /\ UNCHANGED <<now, ticks, ret, lastSet>>
    /\ UNCHANGED valRest

\* /sync-appointments up to its first await or response: hasCRM, the action,
\* createCRMConnector, fetchAppointments
HandleSyncAppointments ==
    /\ vlPc = "start"
    /\ vlReq.route = "sync-appointments"
    /\ IF ~hasCRM(vlReq.crm)
       THEN /\ Answer(400, "no_crm_configured")
            /\ UNCHANGED <<vlCreated, vlFetches>>
       ELSE IF ~ActionSupported(vlReq.route, vlReq.action)
       THEN /\ Answer(400, "invalid_action")
            /\ UNCHANGED <<vlCreated, vlFetches>>
       ELSE Construct(vlReq, StartFetch)
    /\ UNCHANGED vlReq
    /\ UNCHANGED cacheVars
    /\ UNCHANGED valRest

\* the awaited calls resolved: res.json({ ok: true, ... })
HandlerResolves ==
    /\ vlPc = "fetching"
    /\ Answer(200, "")
    /\ UNCHANGED <<vlReq, vlCreated, vlFetches>>
    /\ UNCHANGED cacheVars
    /\ UNCHANGED valRest

\* an awaited call rejected: catch (error) { res.status(500).json(...) }
HandlerRejects ==
    /\ vlPc = "fetching"
    /\ Answer(500, "sync_failed")
    /\ UNCHANGED <<vlReq, vlCreated, vlFetches>>
    /\ UNCHANGED cacheVars
    /\ UNCHANGED valRest

----------------------------------------------------------------------------
(* POST /sync-payment-types: Promise.all([service.fetchInvoicesForYear(year), *)
(* crm.fetchTransactions(start, end)]); each fetch runs paginatedGet          *)

Fetches == {"invoices", "transactions"}

\* items.length of the page at offset off of a list of n items
PageLen(n, off) == Min(limit, n - off)

\* this.client.get(...&limit=..&offset=..) is called: the request is in flight
PsIssue(f) ==
    /\ psPc[f] = "request"
    /\ psPc' = [psPc EXCEPT ![f] = "inflight"]
    /\ psInFlight' = psInFlight \cup {f}
    /\ UNCHANGED <<psLen, psOffset>>
    /\ UNCHANGED psRest

\* the request resolves: all.push(...items); if (items.length < limit) break;
\* offset += limit
PsRespond(f) ==
    /\ psPc[f] = "inflight"
    /\ psInFlight' = psInFlight \ {f}
    /\ IF PageLen(psLen[f], psOffset[f]) < limit
       THEN /\ psPc' = [psPc EXCEPT ![f] = "done"]
            /\ UNCHANGED psOffset
       ELSE /\ psPc' = [psPc EXCEPT ![f] = "sleep"]
            /\ psOffset' = [psOffset EXCEPT ![f] = NextOffset(@)]
    /\ UNCHANGED psLen
    /\ UNCHANGED psRest

\* the request rejects: this fetch is over, the other one is not cancelled
PsReject(f) ==
    /\ psPc[f] = "inflight"
    /\ psInFlight' = psInFlight \ {f}
    /\ psPc' = [psPc EXCEPT ![f] = "failed"]
    /\ UNCHANGED <<psLen, psOffset>>
    /\ UNCHANGED psRest

\* await this.sleep(sleepMs) is over
PsSleep(f) ==
    /\ psPc[f] = "sleep"
    /\ psPc' = [psPc EXCEPT ![f] = "request"]
    /\ UNCHANGED <<psLen, psOffset, psInFlight>>
    /\ UNCHANGED psRest

(* SpecPaySync: one payment-type sync request *)
InitPaySync ==
    /\ psLen \in [Fetches -> {n * (limit \div 2) : n \in 0..MaxHalfPages}]
    /\ psPc = [f \in Fetches |-> "request"]
    /\ psOffset = [f \in Fetches |-> 0]
    /\ psInFlight = {}
    /\ CoreIdle
    /\ PayIdle /\ DeriveIdle /\ PauseIdle /\ ApptIdle /\ FacIdle /\ LateIdle

NextPaySync ==
    \/ \E f \in Fetches : PsIssue(f)
    \/ \E f \in Fetches : PsRespond(f)
    \/ \E f \in Fetches : PsReject(f)
    \/ \E f \in Fetches : PsSleep(f)

SpecPaySync == InitPaySync /\ [][NextPaySync]_vars

(* SpecCells: the rows of one invoice with any optional data missing *)
TextChoices == {Undefined, Null, Str(""), Str("x")}

AmountChoices == {Undefined, Null} \cup {Amt(k) : k \in 0..MaxAmount}

DateChoices == {NullDate, EmptyDate, BadDate, Day(0), Day(MaxDay)}

FlagChoices == {Undefined, Bool(FALSE), Bool(TRUE)}

AddressChoices ==
    {NoAddress("undefined"), NoAddress("null"), NoAddress("object"),
     Address(Str("1 Main St"), Undefined, Str("NY"), Str("")),
     Address(Str("1 Main St"), Str("Troy"), Str("NY"), Str("12180"))}

ContactChoices ==
    {NoContactDetails("undefined"), NoContactDetails("null")}
    \cup {ContactDetails(Str("c1"), t, t, t, a) : t \in {Undefined, Str("x")},
                                                   a \in AddressChoices}

InvoiceShapes ==
    {FullInvoice(t, a, d1, d2, f, c) :
        t \in TextChoices, a \in AmountChoices, d1 \in DateChoices, d2 \in DateChoices,
        f \in FlagChoices, c \in ContactChoices}

InitCells ==
    /\ clInv \in InvoiceShapes
    /\ clRowDone = FALSE
    /\ clRow = NoCells
    /\ clPayDone = FALSE
    /\ clPayRow = NoCells
    /\ CoreIdle
    /\ PayIdle /\ DeriveIdle /\ PauseIdle /\ ApptIdle /\ FacIdle /\ PsIdle
    /\ AuthIdle /\ ValIdle /\ MonthIdle

NextCells == InvoiceToRow \/ PaymentTypeRow

SpecCells == InitCells /\ [][NextCells]_vars

(* SpecAuth: authMiddleware on one request *)
Headers ==
    {NoHeader, Header(FALSE, NoText), Header(FALSE, Text("s1")),
     Header(TRUE, NoText), Header(TRUE, Padded("")),
     Header(TRUE, Text("s1")), Header(TRUE, Padded("s1")), Header(TRUE, Upper("s1")),
     Header(TRUE, Text("s2"))}

\* a clientId is absent, '', the id of a client, an unknown id, or a number
BodyIds == {Undefined, Null, Str(""), Str("acme"), Str("beta"), Str("zeta"), Amt(0), Amt(1)}
QueryIds == {Undefined, Str("acme"), Amt(1)}
HeaderIds == {Undefined, Str("beta")}

InitAuth ==
    /\ auReq \in [authorization : Headers, body : BodyIds, query : QueryIds,
                  xClientId : HeaderIds]
    /\ auPc = "start"
    /\ auStatus = <<>>
    /\ auNext = 0
    /\ auAttached = NoClientConfig
    /\ auLoadThrew = FALSE
    /\ CoreIdle
    /\ PayIdle /\ DeriveIdle /\ PauseIdle /\ ApptIdle /\ FacIdle /\ PsIdle
    /\ CellIdle /\ ValIdle /\ MonthIdle

NextAuth == AuthCheck \/ AuthLoaded \/ AuthLoadThrows

SpecAuth == InitAuth /\ [][NextAuth]_vars

(* SpecRoutes: one request to /sync-invoices or /sync-appointments *)
Routes == {"sync-invoices", "sync-appointments"}

\* req.body.action: an action of /sync-invoices, another text, or none ('')
RequestActions == InvoiceActions \cup {"monthly", ""}

RequestDates == {"", "2024-01-01"}

\* validateConfig(config), the crm part: the loader hands out no other configuration
ValidCrm(crm) ==
    /\ crm.type # ""
    /\ crm.type = "leadconnector" => (crm.apiToken # "" /\ crm.locationId # "")

InitRoutes ==
    /\ vlReq \in [route : Routes, crm : {c \in Configs : ValidCrm(c)}, action : RequestActions,
                  startDate : RequestDates, endDate : RequestDates]
    /\ vlPc = "start"
    /\ vlStatus = 0
    /\ vlError = ""
    /\ vlCreated = 0
    /\ vlFetches = 0
    /\ CoreIdle
    /\ PayIdle /\ DeriveIdle /\ PauseIdle /\ ApptIdle /\ FacIdle /\ PsIdle
    /\ CellIdle /\ AuthIdle /\ MonthIdle

NextRoutes ==
    \/ HandleSyncInvoices
    \/ HandleSyncAppointments
    \/ HandlerResolves
    \/ HandlerRejects

SpecRoutes == InitRoutes /\ [][NextRoutes]_vars

(* SpecMonth: the month window of any month of the last years, in a process *)
(* whose local time is UTC or America/New_York                              *)
Zones == {"UTC", "America/New_York"}

Years == (2024 - MaxYears)..2024

InitMonth ==
    /\ mwZone \in Zones
    /\ mwYear \in Years
    /\ mwMonth \in 1..12
    /\ mwDone = FALSE
    /\ mwOut = NoWindow
    /\ mwFetched = FALSE
    /\ mwFetch = NoWindow
    /\ CoreIdle
    /\ PayIdle /\ DeriveIdle /\ PauseIdle /\ ApptIdle /\ FacIdle /\ PsIdle
    /\ CellIdle /\ AuthIdle /\ ValIdle

NextMonth == CallMonthWindow \/ FetchInvoicesForMonth

SpecMonth == InitMonth /\ [][NextMonth]_vars

----------------------------------------------------------------------------
(* Claims about fetchInvoices and the paginator (SpecFetch) *)

Gets == SelectSeq(pgLog, LAMBDA e : e.ev = "get")

\* C1: every invoice returned by fetchInvoices(start, end) has an issue date
\* t with start <= t < end; an invoice whose issue date equals end, lies
\* outside the window or is missing is never returned.
C1_WindowFilter ==
    fiDone =>
        \A i \in 1..Len(fiResult) :
            /\ fiResult[i].issueDate.kind = "iso"
            /\ ~startMs.nan
            /\ ~endMs.nan
            /\ startMs.ms <= fiResult[i].issueDate.ms
            /\ fiResult[i].issueDate.ms < endMs.ms

\* a window that keeps some invoice and drops one dated exactly at end and
\* one without an issue date
C1_Witness ==
    /\ fiDone
    /\ Len(fiResult) >= 1
    /\ ~endMs.nan
    /\ \E i \in 1..Len(backend) : backend[i].issueDate = IsoDate(endMs.ms)
    /\ \E j \in 1..Len(backend) : ~Truthy(backend[j].issueDate)

\* C2: for a backend holding N items the paginator returns exactly those N
\* items in backend order: nothing dropped, duplicated or reordered.
C2_AllItemsInOrder ==
    pgReturned =>
        /\ Len(pgResult) = Len(backend)
        /\ \A i \in 1..Len(backend) : pgResult[i] = backend[i]

\* three pages were concatenated
C2_Witness ==
    /\ pgReturned
    /\ Len(backend) > 2 * limit
    /\ Len(Gets) = 3

\* ceil(n / limit)
CeilDiv(n) == (n + limit - 1) \div limit

\* C3: pagination terminates; it takes ceil(N/P) requests when N is not a
\* multiple of P and ceil(N/P)+1 when it is (N = 0 included); requests use
\* offsets 0, P, 2P, ... in order, a pause separates consecutive requests, and
\* no request follows the first page shorter than P.
C3_LogShape ==
    /\ \A i \in 1..Len(pgLog) :
          IF i % 2 = 1
          THEN pgLog[i] = GetEv(((i - 1) \div 2) * limit)
          ELSE pgLog[i].ev = "sleep"
    /\ \A i \in 1..Len(pgLog) :
          (pgLog[i].ev = "get" /\ i < Len(pgLog))
              => Len(backend) - pgLog[i].arg >= limit
    /\ (pgPc = "done" /\ Len(backend) % limit # 0)
          => Len(Gets) = CeilDiv(Len(backend))
    /\ (pgPc = "done" /\ Len(backend) % limit = 0)
          => Len(Gets) = CeilDiv(Len(backend)) + 1

C3_RequestCount == []C3_LogShape /\ <>(pgPc \in {"done", "failed"})

\* a list that is a multiple of the page size needed the extra empty page
C3_Witness ==
    /\ pgPc = "done"
    /\ Len(backend) = 2 * limit
    /\ Len(Gets) = 3
    /\ Len(pgLog) = 5

Last(s) == s[Len(s)]

\* C4 as stated: a failing page fails the pagination, returns no list,
\* requests no further page, and the error identifies the failing page.
C4_ErrorIdentifiesPage ==
    rejected.was =>
        /\ pgPc = "failed"
        /\ ~pgReturned
        /\ ~fiDone
        /\ Last(pgLog) = GetEv(rejected.offset)
        /\ pgError.url = rejected.offset

\* C4 amended: a failing page fails the pagination, returns no list and
\* requests no further page; the error raised carries the HTTP client's
\* message: paginatedGet rethrows the client's error unchanged,
\* fetchAllInvoicesPaged raises a new error 'LeadConnector API error: <message>'
\* that holds no reference to the page that failed.
C4_AbortsWithClientMessage ==
    rejected.was =>
        /\ pgPc = "failed"
        /\ ~pgReturned
        /\ pgResult = <<>>
        /\ ~fiDone
        /\ Last(pgLog) = GetEv(rejected.offset)
        /\ IF variant = "paginatedGet"
           THEN pgError = [name |-> "AxiosError",
                           message |-> <<rejected.message>>,
                           url |-> rejected.offset]
           ELSE pgError = [name |-> "Error",
                           message |-> <<"LeadConnector API error: ", rejected.message>>,
                           url |-> NoUrl]

\* the third page failed after two full pages had been collected
C4_Witness ==
    /\ rejected.was
    /\ pgPc = "failed"
    /\ rejected.offset = 2 * limit
    /\ Len(all) = 2 * limit

----------------------------------------------------------------------------
(* Claims about the cache (SpecCache) *)

\* C7: after set(k, v, ttl) at time t with no later set, delete or clear of k,
\* get(k) returns v at every time before t + ttl and null at every time after.
C7_GetAfterSet ==
    (ret.op = "get" /\ lastSet[ret.key].live) =>
        LET s == lastSet[ret.key] IN
        /\ now < s.at + s.ttl * 1000 => (ret.found /\ ret.value = s.value)
        /\ now > s.at + s.ttl * 1000 => ~ret.found

\* a get one millisecond after a one-second ttl ran out
C7_Witness ==
    /\ ret.op = "get"
    /\ lastSet[ret.key].live
    /\ lastSet[ret.key].ttl = 1
    /\ now = lastSet[ret.key].at + 1001
    /\ ~ret.found

\* C8: eviction is purely time-based: a get on a key whose expiry has passed
\* removes the entry and reports absent, the sweep removes every entry whose
\* expiry has passed, and neither alters an entry whose expiry has not passed.
C8_Step ==
    /\ ret'.op = "get" =>
          /\ (ret'.key \in DOMAIN cacheMap /\ now > cacheMap[ret'.key].expiresAt)
                => (ret'.key \notin DOMAIN cacheMap' /\ ~ret'.found)
          /\ \A j \in DOMAIN cacheMap :
                (j # ret'.key \/ now <= cacheMap[j].expiresAt)
                    => (j \in DOMAIN cacheMap' /\ cacheMap'[j] = cacheMap[j])
    /\ ret'.op = "cleanup" =>
          /\ \A j \in DOMAIN cacheMap :
                now > cacheMap[j].expiresAt => j \notin DOMAIN cacheMap'
          /\ \A j \in DOMAIN cacheMap :
                now <= cacheMap[j].expiresAt
                    => (j \in DOMAIN cacheMap' /\ cacheMap'[j] = cacheMap[j])
    /\ ret'.op \in {"get", "cleanup"} => DOMAIN cacheMap' \subseteq DOMAIN cacheMap

C8_TimeBasedEviction == [][C8_Step]_vars

\* a sweep that dropped an expired entry and kept an unexpired one
C8_Witness ==
    /\ ret.op = "cleanup"
    /\ \E k \in Keys, j \in Keys :
          /\ k \in DOMAIN cacheMap
          /\ now <= cacheMap[k].expiresAt
          /\ j \notin DOMAIN cacheMap
          /\ lastSet[j].live
          /\ now > lastSet[j].at + lastSet[j].ttl * 1000

----------------------------------------------------------------------------
(* Claims about buildOwnerLookup and fetchContact (Spec) *)

\* the distinct contact ids embedded in the invoices of request r
Ids(r) == {invoices[r][i].cid : i \in 1..Len(invoices[r])} \ {""}

Count(r, e, c) == Len(SelectSeq(evlog[r], LAMBDA x : x.ev = e /\ x.id = c))

\* C5: buildOwnerLookup returns a map whose key set is exactly the set of
\* distinct contact ids embedded in the invoices (invoices without one are
\* skipped) and calls the contact lookup exactly once per distinct id.
C5_OneLookupPerContact ==
    \A r \in Reqs :
        pc[r] = "done" =>
            /\ DOMAIN ownerMap[r] = Ids(r)
            /\ \A c \in ContactIds :
                  Count(r, "call", c) = IF c \in Ids(r) THEN 1 ELSE 0

\* four invoices, one without a contact, two sharing c1: two lookups
C5_Witness ==
    /\ pc[1] = "done"
    /\ Len(invoices[1]) = 4
    /\ Count(1, "call", "c1") = 1
    /\ Count(1, "call", "c2") = 1

\* C6: whatever lookups fail, buildOwnerLookup completes without error,
\* maps every failing contact to the empty owner, still looks up the contacts
\* after a failing one, and maps every contact whose lookup succeeds to the
\* owner of the returned contact.
C6_FailuresTolerated ==
    \A r \in Reqs :
        /\ ~threw[r]
        /\ pc[r] # "failed"
        /\ pc[r] = "done" =>
              \A c \in Ids(r) :
                  /\ Count(r, "call", c) >= 1
                  /\ Count(r, "ok", c) + Count(r, "fail", c) = 1
                  /\ Count(r, "fail", c) = 1 =>
                        ownerMap[r][c] = [ownerId |-> "", ownerName |-> ""]
                  /\ \A i \in 1..Len(evlog[r]) :
                        (evlog[r][i].ev = "ok" /\ evlog[r][i].id = c) =>
                            ownerMap[r][c] =
                                [ownerId   |-> evlog[r][i].contact.ownerId,
                                 ownerName |-> evlog[r][i].contact.ownerName]

\* the first lookup failed, the second was still made and found an owner
C6_Witness ==
    /\ pc[1] = "done"
    /\ contactIds[1] = <<"c2", "c1">>
    /\ Count(1, "fail", "c2") = 1
    /\ Count(1, "ok", "c1") = 1
    /\ ownerMap[1]["c2"] = EmptyOwner
    /\ ownerMap[1]["c1"].ownerId = "oA1"

NewEvents(r) ==
    SelectSeq(SubSeq(evlog'[r], Len(evlog[r]) + 1, Len(evlog'[r])),
              LAMBDA x : x.ev # "pause")

\* C9: fetchContact(id) consults the cache first: with an unexpired entry for
\* id it returns that entry and issues no backend request; otherwise it issues
\* exactly one backend request and, when that succeeds, stores the resulting
\* contact under that id with a 21600-second TTL before returning it.
C9_Step ==
    \A r \in Reqs :
        LET new == NewEvents(r) IN
        new # <<>> =>
            LET c == new[1].id
                k == CacheKey(c)
            IN
            /\ new[1].ev \in {"call", "ok", "fail"}
            /\ new[1].ev = "call" =>
                  IF k \in DOMAIN cacheMap /\ now <= cacheMap[k].expiresAt
                  THEN /\ new = <<Ev("call", c, NullValue), Ev("hit", c, NullValue),
                                  Ev("ok", c, cacheMap[k].value)>>
                       /\ cacheMap' = cacheMap
                  ELSE /\ new = <<Ev("call", c, NullValue), Ev("backend", c, NullValue)>>
                       /\ pc'[r] = "await"
            /\ new[1].ev = "ok" =>
                  /\ pc[r] = "await"
                  /\ Len(new) = 1
                  /\ k \in DOMAIN cacheMap'
                  /\ cacheMap'[k] = [value |-> new[1].contact,
                                     expiresAt |-> now + 21600 * 1000]
            /\ new[1].ev = "fail" =>
                  /\ pc[r] = "await"
                  /\ Len(new) = 1

C9_CacheFirst == [][C9_Step]_vars

\* request 2 was served c1 from the cache after request 1 had fetched it
C9_Witness ==
    /\ Count(1, "backend", "c1") = 1
    /\ Count(1, "ok", "c1") = 1
    /\ Count(2, "hit", "c1") = 1
    /\ Count(2, "backend", "c1") = 0

----------------------------------------------------------------------------
(* Claims about transformToRows (SpecRows) *)

\* C10: transformToRows returns one row per invoice, in input order, row i
\* built from invoice i and carrying the owner the map holds for its contact
\* id; without a contact id, or with one the map lacks, the owner is empty.
C10_RowsJoinOwners ==
    trDone =>
        /\ Len(trRows) = Len(trInvoices)
        /\ \A i \in 1..Len(trInvoices) :
              /\ trRows[i].invoice_id = trInvoices[i].id
              /\ trRows[i].contact_id = trInvoices[i].cid
              /\ IF trInvoices[i].cid # "" /\ trInvoices[i].cid \in DOMAIN trOwnerMap
                 THEN /\ trRows[i].owner_id = trOwnerMap[trInvoices[i].cid].ownerId
                      /\ trRows[i].owner_name = trOwnerMap[trInvoices[i].cid].ownerName
                 ELSE /\ trRows[i].owner_id = ""
                      /\ trRows[i].owner_name = ""

\* rows with a mapped owner, with no contact id, and with an unmapped contact id
C10_Witness ==
    /\ trDone
    /\ Len(trRows) = 4
    /\ DOMAIN trOwnerMap = {"c1"}
    /\ trRows[1].owner_id = "o1"
    /\ trRows[2].contact_id = ""
    /\ trRows[3].owner_name = "Rep 1"
    /\ trRows[4].contact_id = "c2"
    /\ trRows[4].owner_id = ""

----------------------------------------------------------------------------
(* Claims about paymentService (SpecPay, SpecDerive) *)

\* the first non-empty of fulfilledAt, createdAt, updatedAt (else the empty date)
Stamp(txn) ==
    IF txn.fulfilledAt.kind \notin {"null", "empty"} THEN txn.fulfilledAt
    ELSE IF txn.createdAt.kind \notin {"null", "empty"} THEN txn.createdAt
    ELSE IF txn.updatedAt.kind \notin {"null", "empty"} THEN txn.updatedAt
    ELSE EmptyDate

\* the text the payment type is taken from: the manual mode when present,
\* else the type of the first charge when present, else the generic type
TypeSource(snap) ==
    IF snap.mode # NoText THEN snap.mode
    ELSE IF snap.charges # <<>> /\ snap.charges[1].pmType # NoText
         THEN snap.charges[1].pmType
    ELSE snap.altType

Contributed(i) == \E k \in 1..Len(contrib) : contrib[k].pos = i

\* C11: a transaction contributes to a bucket of buildPaymentMap if and only
\* if its status is 'succeeded' in any letter case, it has an invoice id
\* (entityId, else entitySource.id), the first non-empty of fulfilledAt,
\* createdAt, updatedAt parses to a time in [start, end), and a payment type
\* can be derived from it; a 'pending' transaction is in no bucket.
C11_ContributesIff ==
    \A i \in 1..Len(transactions) :
        i < payIdx =>
            LET txn == transactions[i] IN
            /\ Contributed(i) <=>
                  /\ txn.status.base = "succeeded" /\ ~txn.status.pad
                  /\ (txn.entityId # "" \/ txn.entitySourceId # "")
                  /\ Stamp(txn).kind = "iso"
                  /\ payStartMs.ms <= Stamp(txn).ms
                  /\ Stamp(txn).ms < payEndMs.ms
                  /\ TypeSource(txn.chargeSnapshot).base # ""
            /\ \A k \in 1..Len(contrib) :
                  contrib[k].pos = i =>
                      /\ contrib[k].id \in DOMAIN paymentMap
                      /\ contrib[k].id =
                            IF txn.entityId # "" THEN txn.entityId ELSE txn.entitySourceId
            /\ txn.status = Text("pending") => ~Contributed(i)

\* an upper-case 'SUCCEEDED' transaction contributed and a pending one did not
C11_Witness ==
    /\ payPc = "done"
    /\ Len(transactions) = 2
    /\ transactions[1].status = Text("pending")
    /\ transactions[2].status = Upper("succeeded")
    /\ ~Contributed(1)
    /\ Contributed(2)

\* trimmed, lower-cased, 'cheque' replaced by 'check'
Normal(t) == Text(IF t.base = "cheque" THEN "check" ELSE t.base)

\* C12: the payment type/detail follow a fixed priority: a manual mode, when
\* present, wins (detail '#<number>' when a cheque or check number is present,
\* else empty); otherwise the type of the first charge (detail from last-4 and
\* brand); otherwise the generic type with empty detail.  The type is trimmed,
\* lower-cased and 'cheque' becomes 'check'.
C12_DerivePriority ==
    dpDone =>
        LET snap == dpTxn.chargeSnapshot IN
        IF snap.mode # NoText
        THEN /\ dpOut.type = Normal(snap.mode)
             /\ dpOut.detail =
                   IF snap.chequeNumber # "" THEN <<"#", snap.chequeNumber>>
                   ELSE IF snap.checkNumber # "" THEN <<"#", snap.checkNumber>>
                   ELSE <<>>
             /\ snap.mode.base \in {"cheque", "check"} => dpOut.type = Text("check")
        ELSE IF snap.charges # <<>> /\ snap.charges[1].pmType # NoText
        THEN /\ dpOut.type = Normal(snap.charges[1].pmType)
             /\ dpOut.detail =
                   LET l4 == snap.charges[1].last4
                       br == snap.charges[1].brand
                   IN CASE l4 # "" /\ br # "" -> <<"**** ", l4, " (", br, ")">>
                        [] l4 # "" /\ br = "" -> <<"**** ", l4>>
                        [] l4 = "" /\ br # "" -> <<"(", br, ")">>
                        [] OTHER              -> <<>>
        ELSE /\ dpOut.type = Normal(snap.altType)
             /\ dpOut.detail = <<>>

\* mode 'cheque' with a cheque number beat a card charge and a generic type
C12_Witness ==
    /\ dpDone
    /\ dpTxn.chargeSnapshot.mode = Text("cheque")
    /\ dpTxn.chargeSnapshot.chequeNumber = "101"
    /\ Len(dpTxn.chargeSnapshot.charges) > 0
    /\ dpTxn.chargeSnapshot.charges[1].pmType = Text("card")
    /\ dpTxn.chargeSnapshot.altType = Text("ach")
    /\ dpOut = [type |-> Text("check"), detail |-> <<"#", "101">>]

\* the contributions to the bucket of invoice id
ContribOf(id) == {k \in 1..Len(contrib) : contrib[k].id = id}

\* the contribution with the greatest timestamp, the first of them in input order
LatestOf(id) ==
    CHOOSE k \in ContribOf(id) :
        \A j \in ContribOf(id) :
            \/ contrib[j].ms < contrib[k].ms
            \/ (contrib[j].ms = contrib[k].ms /\ contrib[k].pos <= contrib[j].pos)

\* C13: after any sequence of transactions, the bucket of each invoice id
\* holds the distinct types and the distinct non-empty details of the
\* transactions that contributed to it, and its latest type/detail pair is
\* that of the contributing transaction with the greatest timestamp, the
\* first in input order when several share it.
C13_BucketContents ==
    \A id \in {"i1", "i2", "i3"} :
        /\ id \in DOMAIN paymentMap <=> ContribOf(id) # {}
        /\ ContribOf(id) # {} =>
              LET b == paymentMap[id] IN
              /\ b.types = {contrib[k].type : k \in ContribOf(id)}
              /\ b.details = {contrib[k].detail : k \in ContribOf(id)} \ {<<>>}
              /\ b.latestMs = Ms(contrib[LatestOf(id)].ms)
              /\ b.latestType = contrib[LatestOf(id)].type
              /\ b.latestDetail = contrib[LatestOf(id)].detail

\* two transactions of different types tied on the timestamp: the first stays
C13_Witness ==
    /\ Len(contrib) = 2
    /\ contrib[1].id = contrib[2].id
    /\ contrib[1].ms = contrib[2].ms
    /\ contrib[1].type # contrib[2].type
    /\ contrib[1].detail # <<>>
    /\ paymentMap[contrib[1].id].latestType = contrib[1].type
    /\ Cardinality(paymentMap[contrib[1].id].types) = 2

\* s lists the members of S once each, ascending
Ascending(s, S, Less(_, _)) ==
    /\ Len(s) = Cardinality(S)
    /\ \A x \in S : \E i \in 1..Len(s) : s[i] = x
    /\ \A i, j \in 1..Len(s) : i < j => Less(s[i], s[j])

\* C14: toPaymentTypeRows emits one row per invoice, in invoice order; with a
\* bucket for the invoice id the row carries the bucket's latest type, latest
\* detail and latest date and all its types, and all its details, sorted
\* ascending and joined with ' + '; without a bucket the five payment cells
\* are empty.
C14_PaymentRows ==
    payPc = "done" =>
        /\ Len(payRows) = Len(payInvoices)
        /\ \A i \in 1..Len(payInvoices) :
              LET row == payRows[i]
                  id  == payInvoices[i].id
              IN
              /\ row.invoice_id = id
              /\ IF id \in DOMAIN paymentMap
                 THEN LET b == paymentMap[id] IN
                      /\ row.latest_payment_type = b.latestType
                      /\ row.latest_payment_detail = b.latestDetail
                      /\ row.latest_payment_date =
                            [mm |-> 1, dd |-> (b.latestMs.ms \div DayMs) + 1, yyyy |-> 1970]
                      /\ \E s \in [1..Cardinality(b.types) -> b.types] :
                            /\ Ascending(s, b.types, TypeLess)
                            /\ row.all_payment_types =
                                  Join([k \in 1..Len(s) |-> <<s[k].base>>])
                      /\ \E s \in [1..Cardinality(b.details) -> b.details] :
                            /\ Ascending(s, b.details, DetailLess)
                            /\ row.all_payment_details = Join(s)
                 ELSE /\ row.latest_payment_type = NoText
                      /\ row.latest_payment_detail = <<>>
                      /\ row.latest_payment_date = EmptyCell
                      /\ row.all_payment_types = <<>>
                      /\ row.all_payment_details = <<>>

----------------------------------------------------------------------------
(* Claims about the pacing of buildOwnerLookup (SpecPause) *)

\* C15: contact lookups are issued one at a time and a pause is taken after
\* every 25 lookups, whatever the lookups' outcomes: never more than 25
\* consecutive lookups without a pause, and no pause other than after a 25th
\* lookup.
C15_PauseEvery25 ==
    /\ plSince <= 25
    /\ plPauseAt # 0 - 1 => (plPauseAt > 0 /\ plPauseAt % 25 = 0)

----------------------------------------------------------------------------
(* Claims about fetchAppointments (SpecAppt) *)

\* the calendar requests and the pauses, in order
CalLog == SelectSeq(apLog, LAMBDA e : e.ev \in {"get", "sleep"})

\* the events of the first k users of userIds, each under its user, in order
RECURSIVE EventsUpTo(_)
EventsUpTo(k) ==
    IF k = 0 THEN <<>>
    ELSE EventsUpTo(k - 1) \o
         [i \in 1..Len(apCalendar[apUserIds[k]]) |->
             [id          |-> apCalendar[apUserIds[k]][i].id,
              userId      |-> apUserIds[k],
              contactId   |-> IF apCalendar[apUserIds[k]][i].contactId # ""
                              THEN apCalendar[apUserIds[k]][i].contactId
                              ELSE apCalendar[apUserIds[k]][i].contactObjId,
              contactName |-> IF apCalendar[apUserIds[k]][i].contactName # ""
                              THEN apCalendar[apUserIds[k]][i].contactName
                              ELSE apCalendar[apUserIds[k]][i].contactObjName]]

\* C16: fetchAppointments requests the users' calendars one at a time in the
\* order of userIds, pausing after each user, and returns the per-user event
\* lists concatenated in that order; if a calendar request fails the call
\* fails without returning appointments, the request is not retried and no
\* calendar request is issued for the users that follow.
C16_CalendarsInOrder ==
    /\ \A i \in 1..Len(CalLog) :
          IF i % 2 = 1
          THEN /\ CalLog[i].ev = "get"
               /\ (i + 1) \div 2 <= Len(apUserIds)
               /\ CalLog[i].user = apUserIds[(i + 1) \div 2]
          ELSE CalLog[i].ev = "sleep"
    /\ apReturned =>
          /\ Len(CalLog) = 2 * Len(apUserIds)
          /\ Len(apResult) = Len(EventsUpTo(Len(apUserIds)))
          /\ \A i \in 1..Len(apResult) :
                /\ apResult[i].id = EventsUpTo(Len(apUserIds))[i].id
                /\ apResult[i].userId = EventsUpTo(Len(apUserIds))[i].userId
    /\ \A i \in 1..Len(apLog) :
          (apLog[i].ev = "get" /\ apLog[i].res = "rejected") =>
              /\ i = Len(apLog)
              /\ apPc = "failed"
              /\ ~apReturned
              /\ apResult = <<>>

\* the second user's calendar request failed after the first user's events
\* had been collected
C16_Witness ==
    /\ apPc = "failed"
    /\ apFailed = "u2"
    /\ apUserIds = <<"u1", "u2">>
    /\ Len(apAll) = 2
    /\ Len(apLog) = 3

LookupsAt(i, kinds) == SelectSeq(apLog, LAMBDA e : e.ev \in kinds /\ e.at = i)

\* C17: an appointment with a contact id and no contact name gets the name of
\* the contact the cached contact lookup returns, and keeps the empty name
\* when the lookup fails; a failed lookup never fails fetchAppointments nor
\* removes or reorders an appointment; appointments with a contact name, or
\* without a contact id, are left unchanged.
C17_BackfillBestEffort ==
    /\ apPc = "failed" =>
          \E i \in 1..Len(apLog) : apLog[i].ev = "get" /\ apLog[i].res = "rejected"
    /\ apReturned =>
          LET before == EventsUpTo(Len(apUserIds)) IN
          /\ Len(apResult) = Len(before)
          /\ \A i \in 1..Len(before) :
                /\ apResult[i].id = before[i].id
                /\ apResult[i].userId = before[i].userId
                /\ apResult[i].contactId = before[i].contactId
                /\ IF before[i].contactId # "" /\ before[i].contactName = ""
                   THEN /\ Len(LookupsAt(i, {"ok", "hit", "fail"})) = 1
                        /\ LookupsAt(i, {"ok", "hit", "fail"})[1].ev \in {"ok", "hit"} =>
                              apResult[i].contactName =
                                  LookupsAt(i, {"ok", "hit", "fail"})[1].name
                        /\ LookupsAt(i, {"ok", "hit", "fail"})[1].ev = "fail" =>
                              apResult[i].contactName = ""
                   ELSE /\ apResult[i] = before[i]
                        /\ LookupsAt(i, {"ok", "hit", "fail", "backend"}) = <<>>

\* one name was filled in from the backend, one lookup failed and left the
\* name empty, and an appointment that had a name kept it
C17_Witness ==
    /\ apReturned
    /\ \E i, j, k \in 1..Len(apResult) :
          /\ LookupsAt(i, {"ok"}) # <<>>
          /\ apResult[i].contactName = "Ann"
          /\ LookupsAt(j, {"fail"}) # <<>>
          /\ apResult[j].contactName = ""
          /\ apResult[k].contactName = "Yves"
          /\ j < k

----------------------------------------------------------------------------
(* Claims about the connector factory (SpecFactory) *)

\* C18: createCRMConnector returns a usable connector only for type
\* 'leadconnector' with both apiToken and locationId; for every other
\* configuration (an unrecognised type, a missing credential, 'servicetitan',
\* 'jobber', 'spreadsheet') it signals an error and constructs nothing.
\* hasCRM is false exactly for 'spreadsheet', so wherever hasCRM is false
\* createCRMConnector signals an error.
C18_FactoryContract ==
    /\ facCalled =>
          IF /\ facConfig.type = "leadconnector"
             /\ facConfig.apiToken # ""
             /\ facConfig.locationId # ""
          THEN /\ facOut.kind = "connector"
               /\ facOut.connector.apiToken = facConfig.apiToken
               /\ facOut.connector.locationId = facConfig.locationId
          ELSE /\ facOut.kind = "error"
               /\ facOut.message # <<>>
               /\ facOut.connector = [locationId |-> "", apiToken |-> "", apiVersion |-> ""]
    /\ hasCalled => (hasOut = FALSE <=> facConfig.type = "spreadsheet")
    /\ (hasCalled /\ facCalled /\ hasOut = FALSE) => facOut.kind = "error"

\* 'leadconnector' with a token but no location id was refused although
\* hasCRM answered true
C18_Witness ==
    /\ facCalled
    /\ hasCalled
    /\ facConfig.type = "leadconnector"
    /\ facConfig.apiToken = "tok"
    /\ facConfig.locationId = ""
    /\ hasOut = TRUE
    /\ facOut.kind = "error"

----------------------------------------------------------------------------
(* Claims about tenants sharing the process (Spec) *)

\* C19: client data is isolated between tenants: under every interleaving of
\* the requests of two tenants, the rows returned to a tenant, owner fields
\* included, are derived only from that tenant's CRM (they are the rows it
\* would get had the other tenant's requests never run), even when both CRMs
\* issue the same contact id.
C19_TenantIsolation ==
    \A r \in Reqs :
        pc[r] = "done" =>
            \A i \in 1..Len(rows[r]) :
                LET c   == rows[r][i].contact_id
                    own == [ownerId   |-> rows[r][i].owner_id,
                            ownerName |-> rows[r][i].owner_name]
                IN
                \/ own = [ownerId |-> "", ownerName |-> ""]
                \/ /\ c # ""
                   /\ own = extractOwner(CrmContact(tenant[r], c))

----------------------------------------------------------------------------
(* Claims about the backend requests of one sync request (SpecPaySync) *)

\* C20: while one sync request is handled, its backend requests are strictly
\* sequential: a backend request is issued only after the previous one of the
\* same sync request has completed, so at most one is in flight at any time;
\* this holds for the payment-type sync as for the invoice and appointment
\* syncs.
C20_OneRequestInFlight == Cardinality(psInFlight) <= 1

----------------------------------------------------------------------------
(* Claims about the cells of a row (SpecCells) *)

\* the text a cell must show for an optional source text: the text, or ''
TextOrEmpty(v) == IF v.kind = "string" THEN v.text ELSE ""

\* the number a cell must show for an optional source amount: the amount, or 0
AmountOrZero(v) == IF v.kind = "number" THEN v.n ELSE 0

\* the date a cell must show: the calendar day of a parseable date, or ''
DateOrEmpty(d) ==
    IF d.kind = "iso"
    THEN [mm   |-> MonthDay(d.ms \div DayMs, 1).mm,
          dd   |-> MonthDay(d.ms \div DayMs, 1).dd,
          yyyy |-> 1970]
    ELSE EmptyCell

\* the cells both rows share, as the claim has them
InvoiceCellsExpected(row, inv) ==
    /\ row.invoice_id = TextOrEmpty(inv.id)
    /\ row.invoice_number = TextOrEmpty(inv.invoiceNumber)
    /\ row.invoice_status = TextOrEmpty(inv.status)
    /\ row.amount_paid = AmountOrZero(inv.amountPaid)
    /\ row.amount_due = AmountOrZero(inv.amountDue)
    /\ row.amount_total = AmountOrZero(inv.total)
    /\ row.issue_date = DateOrEmpty(inv.issueDate)
    /\ row.due_date = DateOrEmpty(inv.dueDate)

\* C21: row construction is total: for an invoice whose optional data is
\* missing or malformed (no embedded contact, no address, a null or
\* unparseable issue or due date, absent amounts or identifiers) the invoice
\* row and the payment-type row are built, and every cell is the source value
\* or its fallback: '' for text and date cells, 0 for amount cells.
C21_RowsTotal ==
    /\ clRowDone =>
        /\ InvoiceCellsExpected(clRow, clInv)
        /\ clRow.alt_type = TextOrEmpty(clInv.altType)
        /\ clRow.alt_id = TextOrEmpty(clInv.altId)
        /\ clRow.company_id = TextOrEmpty(clInv.companyId)
        /\ IF clInv.contactDetails.kind = "object"
           THEN /\ clRow.contact_id = TextOrEmpty(clInv.contactDetails.id)
                /\ clRow.contact_name = TextOrEmpty(clInv.contactDetails.name)
                /\ clRow.contact_email = TextOrEmpty(clInv.contactDetails.email)
                /\ clRow.contact_phone = TextOrEmpty(clInv.contactDetails.phoneNo)
           ELSE /\ clRow.contact_id = ""
                /\ clRow.contact_name = ""
                /\ clRow.contact_email = ""
                /\ clRow.contact_phone = ""
        /\ IF clInv.contactDetails.kind = "object"
              /\ clInv.contactDetails.address.kind = "object"
           THEN /\ clRow.contact_addr1 = TextOrEmpty(clInv.contactDetails.address.addressLine1)
                /\ clRow.contact_city = TextOrEmpty(clInv.contactDetails.address.city)
                /\ clRow.contact_state = TextOrEmpty(clInv.contactDetails.address.state)
                /\ clRow.contact_postal = TextOrEmpty(clInv.contactDetails.address.postalCode)
           ELSE /\ clRow.contact_addr1 = ""
                /\ clRow.contact_city = ""
                /\ clRow.contact_state = ""
                /\ clRow.contact_postal = ""
    /\ clPayDone => InvoiceCellsExpected(clPayRow, clInv)

----------------------------------------------------------------------------
(* Claims about authMiddleware (SpecAuth) *)

\* the secret of a header 'Bearer <secret>': what follows, without blanks around it
BearerSecret(h) == [base |-> h.rest.base, pad |-> FALSE, up |-> h.rest.up]

\* the header is 'Bearer ' followed by a non-empty secret
BearerOk(h) == h.present /\ h.bearer /\ h.rest.base # ""

\* a value counts as supplied unless it is absent, null, '' or 0
Supplied(v) == v \notin {Undefined, Null, Str(""), Amt(0)}

\* the clientId of a request: the body's if supplied, else the query's, else
\* the x-client-id header's
SuppliedId(req) ==
    IF Supplied(req.body) THEN req.body
    ELSE IF Supplied(req.query) THEN req.query
    ELSE req.xClientId

StringId(req) == Supplied(SuppliedId(req)) /\ SuppliedId(req).kind = "string"

KnownClients == {"acme", "beta"}

SecretOf(id) == IF id = "acme" THEN Text("s1") ELSE Text("s2")

\* every condition of the claim holds for the request
MayPass(req) ==
    /\ BearerOk(req.authorization)
    /\ StringId(req)
    /\ SuppliedId(req).text \in KnownClients
    /\ BearerSecret(req.authorization) = SecretOf(SuppliedId(req).text)

\* the case of the claim that an error status belongs to
Cause(code, req) ==
    CASE code = 401 -> \/ ~BearerOk(req.authorization)
                       \/ /\ StringId(req)
                          /\ SuppliedId(req).text \in KnownClients
                          /\ BearerSecret(req.authorization) # SecretOf(SuppliedId(req).text)
      [] code = 400 -> ~StringId(req)
      [] code = 404 -> StringId(req) /\ SuppliedId(req).text \notin KnownClients
      [] code = 500 -> auLoadThrew
      [] OTHER      -> FALSE

\* C23: authMiddleware calls next (with req.clientConfig set to the
\* configuration of the supplied clientId) if and only if the header is
\* 'Bearer' followed by a non-empty secret, a string clientId is supplied in
\* the body, the query or the x-client-id header, a configuration exists for
\* it and the secret equals its apiSecret; in every other case it sends
\* exactly one error response (401, 400, 404, 401 or 500 by the case) and
\* never calls next.
C23_AuthPassesIff ==
    /\ auNext + Len(auStatus) <= 1
    /\ auPc = "done" =>
        IF MayPass(auReq) /\ ~auLoadThrew
        THEN /\ auNext = 1
             /\ auStatus = <<>>
             /\ auAttached.found
             /\ auAttached.clientId = SuppliedId(auReq).text
             /\ auAttached.apiSecret = SecretOf(SuppliedId(auReq).text)
        ELSE /\ auNext = 0
             /\ auAttached = NoClientConfig
             /\ Len(auStatus) = 1
             /\ Cause(auStatus[1], auReq)

\* a request that passes with the clientId taken from the query, and the
\* secret written with blanks around it
C23_Witness ==
    /\ auPc = "done"
    /\ auNext = 1
    /\ ~Supplied(auReq.body)
    /\ auReq.query = Str("acme")
    /\ auReq.authorization.rest = Padded("s1")
    /\ auAttached.clientId = "acme"

----------------------------------------------------------------------------
(* Claims about the validation of sync requests (SpecRoutes) *)

NoCrmMode(req) == req.crm.type = "spreadsheet"

Unsupported(req) ==
    IF req.route = "sync-invoices"
    THEN req.action \notin {"ytd", "thisMonth", "lastMonth", "last7days", "last30days",
                            "custom"}
    ELSE req.action # "ytd"

CustomWithoutDates(req) ==
    /\ req.route = "sync-invoices"
    /\ req.action = "custom"
    /\ (req.startDate = "" \/ req.endDate = "")

FailsValidation(req) == NoCrmMode(req) \/ Unsupported(req) \/ CustomWithoutDates(req)

\* status 400 with an error code whose case applies, and no backend request
Answered400(req) ==
    /\ vlStatus = 400
    /\ \/ vlError = "no_crm_configured" /\ NoCrmMode(req)
       \/ vlError = "invalid_action" /\ Unsupported(req)
       \/ vlError = "missing_dates" /\ CustomWithoutDates(req)
    /\ vlFetches = 0

NotConstructible(req) ==
    \/ req.crm.type \notin {"leadconnector", "spreadsheet"}
    \/ req.crm.type = "leadconnector" /\ (req.crm.apiToken = "" \/ req.crm.locationId = "")

----------------------------------------------------------------------------
(* Claims about the month window (SpecMonth) *)

\* the days of month m (1..12) of year y
MonthLength(y, m) ==
    CASE m \in {4, 6, 9, 11} -> 30
      [] m = 2 -> IF y % 4 = 0 /\ (y % 100 # 0 \/ y % 400 = 0) THEN 29 ELSE 28
      [] OTHER -> 31

\* the month after month m of year y
FollowingMonth(y, m) == IF m = 12 THEN [y |-> y + 1, m |-> 1] ELSE [y |-> y, m |-> m + 1]

\* local midnight of day d of month m (1..12) of year y, in hours since the epoch
LocalMidnight(zone, y, m, d) ==
    DayNumber(y, m - 1, d) * 24 - UtcOffset(zone, y, m - 1, d)

\* the window runs from local midnight of the first day to local midnight of
\* the following month's first day, holds the local midnight of every day of
\* the month, and ends where the window of the following month starts
WindowOfMonth(w, zone, y, m) ==
    LET f == FollowingMonth(y, m) IN
    /\ w.startMs = LocalMidnight(zone, y, m, 1)
    /\ w.endMs = LocalMidnight(zone, f.y, f.m, 1)
    /\ \A d \in 1..MonthLength(y, m) :
          /\ w.startMs <= LocalMidnight(zone, y, m, d)
          /\ LocalMidnight(zone, y, m, d) < w.endMs
    /\ monthWindowLocalMs(zone, f.y, f.m).startMs = w.endMs

\* the window is exactly as long as the days of the month
ExactDays(w, y, m) == w.endMs - w.startMs = MonthLength(y, m) * 24

\* C25: the month window of (year, m) is the half-open interval from local
\* midnight of the first day of month m to local midnight of the first day of
\* the following month (January of year + 1 for m = 12), so it spans exactly
\* the number of days of that calendar month: monthWindow(2024, 2) spans
\* exactly 29 days and monthWindow(2023, 2) exactly 28, and the end of each
\* month's window is the start of the next month's window.
C25_MonthWindow ==
    /\ mwDone => (WindowOfMonth(mwOut, mwZone, mwYear, mwMonth)
                  /\ ExactDays(mwOut, mwYear, mwMonth))
    /\ mwFetched => (WindowOfMonth(mwFetch, mwZone, mwYear, mwMonth)
                     /\ ExactDays(mwFetch, mwYear, mwMonth))

\* the length of the window: the days of the month, less the hours by which
\* the offset from UTC grows between its two ends
AmendedDays(w, zone, y, m) ==
    LET f == FollowingMonth(y, m) IN
    /\ w.endMs - w.startMs =
          MonthLength(y, m) * 24 - (UtcOffset(zone, f.y, f.m - 1, 1)
                                    - UtcOffset(zone, y, m - 1, 1))
    /\ (m = 2 /\ y = 2024) => w.endMs - w.startMs = 29 * 24
    /\ (m = 2 /\ y = 2023) => w.endMs - w.startMs = 28 * 24
    /\ (zone = "UTC" \/ m \notin {3, 11}) => ExactDays(w, y, m)

\* C25, amended: as C25, but the window is exactly as long as the days of the
\* month only if the offset of local time from UTC is the same at both ends;
\* in a month with a daylight-saving change it is an hour shorter or longer.
C25_MonthWindowAmended ==
    /\ mwDone => (WindowOfMonth(mwOut, mwZone, mwYear, mwMonth)
                  /\ AmendedDays(mwOut, mwZone, mwYear, mwMonth))
    /\ mwFetched => (WindowOfMonth(mwFetch, mwZone, mwYear, mwMonth)
                     /\ AmendedDays(mwFetch, mwZone, mwYear, mwMonth))

\* the window of March 2024 in New York: 31 days less one hour
C25_Witness ==
    /\ mwDone
    /\ mwFetched
    /\ mwZone = "America/New_York"
    /\ mwYear = 2024
    /\ mwMonth = 3
    /\ mwOut.endMs - mwOut.startMs = 31 * 24 - 1
    /\ mwFetch = mwOut

----------------------------------------------------------------------------
(* Claims about successive syncs (SpecLater) *)

\* C26: with caching, the first invoice sync issues one backend contact
\* request per unique contact and a later sync issues none: after a
\* sync-invoices request has completed, a later sync-invoices request over the
\* same invoices, started within the 6-hour TTL, issues no backend contact
\* request.
C26_LaterSyncFromCache ==
    /\ pc[1] = "done" =>
          \A c \in ContactIds : Count(1, "backend", c) = IF c \in Ids(1) THEN 1 ELSE 0
    /\ \A c \in ContactIds : Count(2, "backend", c) = 0

----------------------------------------------------------------------------
(* Claims about repeated contacts within one fetchAppointments call
   (SpecApptShared) *)

\* the backend contact requests the call issued for contact id c
BackendRequestsFor(c) ==
    {i \in 1..Len(apLog) :
        apLog[i].ev = "backend" /\ apAll[apLog[i].at].contactId = c}

\* C27: within one fetchAppointments call, for every contact id shared by
\* several appointments that lack a contact name, at most one backend contact
\* request is issued for that id, whatever other requests of the same process
\* are handled in between.
C27_OneRequestPerContact ==
    \A c \in ContactIds : Cardinality(BackendRequestsFor(c)) <= 1

----------------------------------------------------------------------------
(* Claims about two interleaved requests and the shared cache (Spec) *)

\* request r is suspended in fetchContact(c), waiting for the backend
Awaiting(r, c) == pc[r] = "await" /\ contactIds[r][idx[r]] = c

\* C28: a contact stored by one request's fetchContact is returned, without a
\* backend request, to the other request when its cache check for the same id
\* happens after that write and before the entry expires or is cleared; a
\* request whose cache check happens before that write issues its own backend
\* request, and the later of the two writes is the entry that remains.
C28_Step ==
    \A r \in Reqs : \A o \in Reqs \ {r} :
        LET new == NewEvents(r) IN
        new # <<>> =>
            LET c == new[1].id
                k == CacheKey(c)
            IN
            /\ (new[1].ev = "call" /\ k \in DOMAIN cacheMap /\ now <= cacheMap[k].expiresAt) =>
                  /\ Count(o, "backend", c) = 1
                  /\ \E i \in 1..Len(evlog[o]) : evlog[o][i] = Ev("ok", c, cacheMap[k].value)
                  /\ new[Len(new)] = Ev("ok", c, cacheMap[k].value)
                  /\ \A i \in 1..Len(new) : new[i].ev # "backend"
                  /\ pc'[r] = pc[r]
            /\ (new[1].ev = "call" /\ ~(k \in DOMAIN cacheMap /\ now <= cacheMap[k].expiresAt)) =>
                  /\ new[Len(new)] = Ev("backend", c, NullValue)
                  /\ pc'[r] = "await"
                  /\ contactIds'[r][idx'[r]] = c
            /\ (new[1].ev = "ok" /\ Awaiting(r, c)) =>
                  /\ k \in DOMAIN cacheMap'
                  /\ cacheMap'[k].value = new[1].contact
                  /\ cacheMap'[k].expiresAt = now + 21600 * 1000
                  /\ \A j \in DOMAIN cacheMap \ {k} :
                        j \in DOMAIN cacheMap' /\ cacheMap'[j] = cacheMap[j]

C28_WritesVisible == [][C28_Step]_vars

\* both requests asked the backend for c1 and the contact of request 1, stored
\* last, replaced the one request 2 had stored; request 2 was served c2 from
\* the entry request 1 had stored
C28_Witness ==
    /\ tenant[2] = "B"
    /\ Count(1, "backend", "c1") = 1 /\ Count(1, "ok", "c1") = 1
    /\ Count(2, "backend", "c1") = 1 /\ Count(2, "ok", "c1") = 1
    /\ CacheKey("c1") \in DOMAIN cacheMap
    /\ cacheMap[CacheKey("c1")].value = BuildContact(CrmContact("A", "c1"))
    /\ Count(1, "backend", "c2") = 1
    /\ Count(2, "hit", "c2") = 1

----------------------------------------------------------------------------
(* Claims about failed lookups and the cache (SpecLater) *)

\* request r received a successful backend response for c carrying contact v
Fetched(r, c, v) ==
    /\ Count(r, "backend", c) >= 1
    /\ \E i \in 1..Len(evlog[r]) : evlog[r][i] = Ev("ok", c, v)

\* every cached value is the contact of a successful backend response
CacheFromResponses ==
    \A k \in DOMAIN cacheMap :
        \E c \in ContactIds : \E r \in Reqs :
            /\ k = CacheKey(c)
            /\ Fetched(r, c, cacheMap[k].value)
            /\ cacheMap[k].value.id = c
            /\ cacheMap[k].value.name # ""

C29_Step ==
    \A r \in Reqs :
        LET new == NewEvents(r) IN
        new # <<>> =>
            LET c == new[1].id IN
            /\ new[1].ev = "fail" =>
                  /\ cacheMap' = cacheMap
                  /\ ownerMap'[r][c] = EmptyOwner
            /\ (new[1].ev = "call" /\ \E o \in Reqs : Count(o, "fail", c) >= 1) =>
                  /\ new[Len(new)] = Ev("backend", c, NullValue)
                  /\ pc'[r] = "await"

\* C29: the cache only ever holds contacts of successful backend responses: a
\* fetchContact whose backend request fails leaves the cache exactly as it
\* was, the next fetchContact for that contact id issues a new backend request,
\* and the empty owner buildOwnerLookup records for the failed lookup is not
\* written to the cache.
C29_FailuresNotCached == []CacheFromResponses /\ [][C29_Step]_vars

\* the first sync failed to fetch c1 and recorded the empty owner; the later
\* sync asked the backend again and cached the contact it received
C29_Witness ==
    /\ route = "sync"
    /\ Count(1, "fail", "c1") = 1
    /\ ownerMap[1]["c1"] = EmptyOwner
    /\ Count(2, "backend", "c1") = 1
    /\ Count(2, "ok", "c1") = 1
    /\ ownerMap[2]["c1"] # EmptyOwner
    /\ cacheMap[CacheKey("c1")].value.name = "Ann"

----------------------------------------------------------------------------
(* Claims about the buckets of buildPaymentMap (SpecPay) *)

\* C30: after any number of transactions, every bucket of the map built by
\* buildPaymentMap has a non-empty type set, a latest timestamp that is set
\* and lies in [start, end), a latest type that is a member of its type set
\* and a latest detail that is empty or a member of its detail set; no bucket
\* exists for an invoice id to which no transaction contributed.
C30_BucketInvariant ==
    \A id \in DOMAIN paymentMap :
        LET b == paymentMap[id] IN
        /\ b.types # {}
        /\ ~b.latestMs.null
        /\ payStartMs.ms <= b.latestMs.ms
        /\ b.latestMs.ms < payEndMs.ms
        /\ b.latestType \in b.types
        /\ b.latestDetail = <<>> \/ b.latestDetail \in b.details
        /\ id # ""
        /\ \E k \in 1..Len(contrib) : contrib[k].id = id

\* a bucket of two types whose latest payment has no detail while the
\* earlier one had
C30_Witness ==
    /\ payIdx > Len(transactions)
    /\ Len(transactions) = 2
    /\ Len(contrib) = 2
    /\ DOMAIN paymentMap = {"i1"}
    /\ Cardinality(paymentMap["i1"].types) = 2
    /\ paymentMap["i1"].details # {}
    /\ paymentMap["i1"].latestDetail = <<>>
    /\ paymentMap["i1"].latestMs.ms > payStartMs.ms

====
